---- MODULE Spec2Model ----
(***************************************************************************)
(* SitePulse performance audit: LighthouseAPI.analyze_url (the source      *)
(* chain primary API -> fallback APIs -> local analysis) and               *)
(* PerformanceAnalyzer.analyze (local measurement, Core Web Vitals         *)
(* enhancement, scoring, recommendations).                                 *)
(*                                                                         *)
(* Units.  Times are integers in 1/10000 ms, CLS values in 1/10^7, sizes   *)
(* in bytes, API category scores in 1/1000, audit scores in 1/100.  The    *)
(* final score is kept in tenths together with its Python type.            *)
(* Arithmetic is exact; the rounding noise of binary floating point is     *)
(* outside the model.  Of a vitals entry the value, the rating and the     *)
(* note are kept ("" for an entry without a note).                         *)
(***************************************************************************)
EXTENDS Integers, Sequences, FiniteSets, TLC

\* pc: the statement the audit is at; fb_i: the loop index over fallback_apis;
\* attempts: the requests the source chain made; lh: analyze_url's results;
\* results, data_sources: analyze's results and its local list; runs: how often
\* each local measurement ran; failed: the steps whose request raised.
\* calc: one call of a scoring, rating or estimating method on its own, as
\* [fn, in, out]; it stays NoCalc during an audit.
\* other: the analyzer and locals of a second request served at the same
\* time, NoAudit when there is none.
VARIABLES pc, fb_i, attempts, lh, results, data_sources, runs, failed, calc, other

vars == <<pc, fb_i, attempts, lh, results, data_sources, runs, failed, calc, other>>

None == "None"

\* ------------------------------------------------------------------ helpers

Min(a, b) == IF a <= b THEN a ELSE b

Max(a, b) == IF a >= b THEN a ELSE b

\* Python round(): n/d to the nearest integer, ties to the even one (n >= 0).
RoundHalfEven(n, d) ==
    LET q == n \div d
        r == n % d
    IN  IF 2 * r < d THEN q
        ELSE IF 2 * r > d THEN q + 1
        ELSE IF q % 2 = 0 THEN q ELSE q + 1

\* dict.update(): keys of r override those of d, the others are kept.
Update(d, r) ==
    [k \in (DOMAIN d) \cup (DOMAIN r) |-> IF k \in DOMAIN r THEN r[k] ELSE d[k]]

Last(s) == s[Len(s)]

RECURSIVE SelectIds(_, _)
\* the ids of list `ids`, in order, that satisfy keep(_) given as a set
SelectIds(ids, keep) ==
    IF ids = << >> THEN << >>
    ELSE (IF Head(ids) \in keep THEN <<Head(ids)>> ELSE << >>) \o SelectIds(Tail(ids), keep)

\* ------------------------------------------------------------ configuration

base_url == "https://www.googleapis.com/pagespeedonline/v5/runPagespeed"

fallback_apis ==
    << "https://pagespeed.web.dev/api/v5/runPagespeed",
       "https://www.googleapis.com/pagespeedonline/v5/runPagespeed" >>

TargetUrl == "https://example.com/"

\* ------------------------------------------------- Core Web Vitals ratings
\* (lighthouse_api.py and performance_analyzer.py each carry their own copy)

\* one millisecond in the fine time unit
MS == 100 * 100

\* PerformanceAnalyzer._get_*_rating
get_lcp_rating(v) ==
    IF v <= 2500 * MS THEN "good"
    ELSE IF v <= 4000 * MS THEN "needs-improvement" ELSE "poor"

get_fid_rating(v) ==
    IF v <= 100 * MS THEN "good"
    ELSE IF v <= 300 * MS THEN "needs-improvement" ELSE "poor"

\* CLS in 1/10^7: 0.1 = 1000000, 0.25 = 2500000
get_cls_rating(v) ==
    IF v <= 1000000 THEN "good"
    ELSE IF v <= 2500000 THEN "needs-improvement" ELSE "poor"

get_fcp_rating(v) ==
    IF v <= 1800 * MS THEN "good"
    ELSE IF v <= 3000 * MS THEN "needs-improvement" ELSE "poor"

\* LighthouseAPI._get_*_rating
lh_get_lcp_rating(v) ==
    IF v <= 2500 * MS THEN "good"
    ELSE IF v <= 4000 * MS THEN "needs-improvement" ELSE "poor"

lh_get_fid_rating(v) ==
    IF v <= 100 * MS THEN "good"
    ELSE IF v <= 300 * MS THEN "needs-improvement" ELSE "poor"

\* mutant: a CLS on the cut-off gets the worse rating
lh_get_cls_rating_Strict(v) ==
    IF v < 1000000 THEN "good"
    ELSE IF v < 2500000 THEN "needs-improvement" ELSE "poor"

lh_get_cls_rating(v) ==
    IF v <= 1000000 THEN "good"
    ELSE IF v <= 2500000 THEN "needs-improvement" ELSE "poor"

lh_get_fcp_rating(v) ==
    IF v <= 1800 * MS THEN "good"
    ELSE IF v <= 3000 * MS THEN "needs-improvement" ELSE "poor"


\* round(x, 2) of a time, round(x, 3) of a CLS value, kept in the fine unit
Round2(v) == RoundHalfEven(v, 100) * 100

Round3(v) == RoundHalfEven(v, 10000) * 10000

\* ------------------------------------------------- LighthouseAPI: parsing

opportunity_audits ==
    << "unused-css-rules", "unused-javascript", "modern-image-formats",
       "offscreen-images", "render-blocking-resources", "unminified-css",
       "unminified-javascript", "efficient-animated-content",
       "duplicated-javascript", "legacy-javascript" >>

diagnostic_audits ==
    << "server-response-time", "dom-size", "critical-request-chains",
       "user-timings", "bootup-time", "mainthread-work-breakdown",
       "third-party-summary" >>

important_audits ==
    { "first-contentful-paint", "largest-contentful-paint",
      "first-meaningful-paint", "speed-index", "total-blocking-time",
      "max-potential-fid", "cumulative-layout-shift", "server-response-time",
      "interactive", "redirects", "installable-manifest", "apple-touch-icon",
      "splash-screen", "themed-omnibox", "content-width", "viewport",
      "without-javascript", "first-cpu-idle", "consistently-interactive" }

\* one entry of core_web_vitals (displayValue and score are left out)
Reading(v, r, n) == [value |-> v, rating |-> r, note |-> n]

\* mutant: the FID derived from total blocking time is not capped at 300
extract_core_web_vitals_NoCap(audits) ==
    LET has(a) == a \in DOMAIN audits
        keys == (IF has("largest-contentful-paint") THEN {"lcp"} ELSE {})
                \cup (IF has("total-blocking-time") THEN {"fid"} ELSE {})
                \cup (IF has("cumulative-layout-shift") THEN {"cls"} ELSE {})
                \cup (IF has("first-contentful-paint") THEN {"fcp"} ELSE {})
        lcp == audits["largest-contentful-paint"].numericValue
        estimated_fid == audits["total-blocking-time"].numericValue \div 5
        cls == audits["cumulative-layout-shift"].numericValue
        fcp == audits["first-contentful-paint"].numericValue
    IN  [k \in keys |->
            CASE k = "lcp" -> Reading(lcp, lh_get_lcp_rating(lcp), "")
              [] k = "fid" -> Reading(estimated_fid, lh_get_fid_rating(estimated_fid),
                                      "Estimated from Total Blocking Time")
              [] k = "cls" -> Reading(cls, lh_get_cls_rating(cls), "")
              [] k = "fcp" -> Reading(fcp, lh_get_fcp_rating(fcp), "")]

\* audits: a function from audit ids to [score, numericValue]
extract_core_web_vitals(audits) ==
    LET has(a) == a \in DOMAIN audits
        keys == (IF has("largest-contentful-paint") THEN {"lcp"} ELSE {})
                \cup (IF has("total-blocking-time") THEN {"fid"} ELSE {})
                \cup (IF has("cumulative-layout-shift") THEN {"cls"} ELSE {})
                \cup (IF has("first-contentful-paint") THEN {"fcp"} ELSE {})
        lcp == audits["largest-contentful-paint"].numericValue
        estimated_fid == Min(audits["total-blocking-time"].numericValue \div 5, 300 * MS)
        cls == audits["cumulative-layout-shift"].numericValue
        fcp == audits["first-contentful-paint"].numericValue
    IN  [k \in keys |->
            CASE k = "lcp" -> Reading(lcp, lh_get_lcp_rating(lcp), "")
              [] k = "fid" -> Reading(estimated_fid, lh_get_fid_rating(estimated_fid),
                                      "Estimated from Total Blocking Time")
              [] k = "cls" -> Reading(cls, lh_get_cls_rating(cls), "")
              [] k = "fcp" -> Reading(fcp, lh_get_fcp_rating(fcp), "")]

RECURSIVE OppList(_, _)
OppList(ids, audits) ==
    IF ids = << >> THEN << >>
    ELSE (IF Head(ids) \in DOMAIN audits /\ audits[Head(ids)].score < 100
          THEN << [id |-> Head(ids), score |-> audits[Head(ids)].score] >>
          ELSE << >>) \o OppList(Tail(ids), audits)

extract_opportunities(audits) == OppList(opportunity_audits, audits)

extract_diagnostics(audits) == SelectIds(diagnostic_audits, DOMAIN audits)

extract_key_audits(audits) == important_audits \cap DOMAIN audits

\* data: the JSON body, [shape, version, categories, audits]; shape
\* "no_lighthouseResult" lacks the key, "bad_types" makes the extraction raise
\* (a null score, a non-dict entry), which the except clause turns into an error.
parse_lighthouse_response(data) ==
    IF data.shape = "no_lighthouseResult"
    THEN [error |-> "No lighthouse result in API response"]
    ELSE IF data.shape = "bad_types"
    THEN [error |-> "Response parsing error"]
    ELSE [ lighthouse_version |-> data.version,
           categories |-> [c \in DOMAIN data.categories |->
                             [score |-> RoundHalfEven(data.categories[c].score * 100, 1000)]],
           core_web_vitals |-> extract_core_web_vitals(data.audits),
           opportunities |-> extract_opportunities(data.audits),
           diagnostics |-> extract_diagnostics(data.audits),
           audits |-> extract_key_audits(data.audits),
           error |-> None ]

\* response: [kind, status, body]; kind "exception" is session.get or
\* response.json() raising (timeout, connection error, invalid JSON).
try_lighthouse_api(response) ==
    IF response.kind = "exception" THEN [error |-> "API exception"]
    ELSE IF response.status = 200 THEN parse_lighthouse_response(response.body)
    ELSE IF response.status = 429 THEN [error |-> "Rate limit exceeded"]
    ELSE [error |-> "API request failed"]

try_fallback_api(response) ==
    IF response.kind = "exception" THEN [error |-> "Fallback API exception"]
    ELSE IF response.status = 200 THEN parse_lighthouse_response(response.body)
    ELSE [error |-> "Fallback API failed"]

\* `if result and not result.get("error")`
Succeeded(result) == DOMAIN result # {} /\ result.error = None

\* ------------------------------------------ LighthouseAPI: local analysis

\* mutant: the size penalty left out
lh_calculate_local_performance_score_NoSize(load_time, content_size) ==
    LET p1 == IF load_time > 5000 * MS THEN 40
              ELSE IF load_time > 3000 * MS THEN 25
              ELSE IF load_time > 1000 * MS THEN 15 ELSE 0
    IN  Max(0, Min(100, 100 - p1))

\* LighthouseAPI._calculate_local_performance_score(load_time, content_size)
lh_calculate_local_performance_score(load_time, content_size) ==
    LET p1 == IF load_time > 5000 * MS THEN 40
              ELSE IF load_time > 3000 * MS THEN 25
              ELSE IF load_time > 1000 * MS THEN 15 ELSE 0
        p2 == IF content_size > 5000000 THEN 30
              ELSE IF content_size > 2000000 THEN 20
              ELSE IF content_size > 1000000 THEN 10 ELSE 0
    IN  Max(0, Min(100, 100 - p1 - p2))

\* mutant: the enhanced factors in place of the base ones
estimate_core_web_vitals_local_Factors(load_time, content_size) ==
    LET estimated_lcp == load_time + content_size * 3
        estimated_fid == Min((load_time * 15) \div 100, 250 * MS)
        estimated_cls == Min(content_size, 3000000)
        estimated_fcp == (load_time * 6) \div 10
        note == "Estimated from local analysis"
    IN  [k \in {"lcp", "fid", "cls", "fcp"} |->
            CASE k = "lcp" -> Reading(Round2(estimated_lcp), lh_get_lcp_rating(estimated_lcp), note)
              [] k = "fid" -> Reading(Round2(estimated_fid), lh_get_fid_rating(estimated_fid), note)
              [] k = "cls" -> Reading(Round3(estimated_cls), lh_get_cls_rating(estimated_cls), note)
              [] k = "fcp" -> Reading(Round2(estimated_fcp), lh_get_fcp_rating(estimated_fcp), note)]

\* base formulas; load_time in 1/10000 ms, so (size/100000)*50 ms = size*5
estimate_core_web_vitals_local(load_time, content_size) ==
    LET estimated_lcp == load_time + content_size * 5
        estimated_fid == Min(load_time \div 10, 200 * MS)
        estimated_cls == Min(content_size, 3000000)
        estimated_fcp == (load_time * 7) \div 10
        note == "Estimated from local analysis"
    IN  [k \in {"lcp", "fid", "cls", "fcp"} |->
            CASE k = "lcp" -> Reading(Round2(estimated_lcp), lh_get_lcp_rating(estimated_lcp), note)
              [] k = "fid" -> Reading(Round2(estimated_fid), lh_get_fid_rating(estimated_fid), note)
              [] k = "cls" -> Reading(Round3(estimated_cls), lh_get_cls_rating(estimated_cls), note)
              [] k = "fcp" -> Reading(Round2(estimated_fcp), lh_get_fcp_rating(estimated_fcp), note)]

identify_local_opportunities(response) ==
    (IF ~response.compressed
     THEN << [id |-> "enable-compression", score |-> 50] >> ELSE << >>)
    \o (IF response.html_len > 100000
        THEN << [id |-> "reduce-html-size", score |-> 60] >> ELSE << >>)
    \o (IF response.style_tags > 2
        THEN << [id |-> "consolidate-inline-styles", score |-> 70] >> ELSE << >>)

generate_local_diagnostics ==
    << "server-response-time", "content-size", "compression-status" >>

create_local_audits ==
    { "first-contentful-paint", "largest-contentful-paint", "cumulative-layout-shift" }

\* mutant: a failed fetch is returned as an error-free result without data
perform_local_analysis_NoError(response) ==
    IF response.kind = "exception"
    THEN [ error |-> None,
           categories |-> << >>,
           core_web_vitals |-> << >>,
           opportunities |-> << >>,
           diagnostics |-> << >>,
           audits |-> {} ]
    ELSE [ lighthouse_version |-> "local_analysis",
           categories |-> [c \in {"performance"} |->
               [score |-> lh_calculate_local_performance_score(response.load_time,
                                                               response.content_size)]],
           core_web_vitals |-> estimate_core_web_vitals_local(response.load_time,
                                                              response.content_size),
           opportunities |-> identify_local_opportunities(response),
           diagnostics |-> generate_local_diagnostics,
           audits |-> create_local_audits,
           error |-> None ]

\* response: [kind, status, load_time, content_size, html_len, style_tags,
\* compressed]; the status code of the fetched page is never looked at.
perform_local_analysis(response) ==
    IF response.kind = "exception"
    THEN [ error |-> "Local analysis failed",
           categories |-> << >>,
           core_web_vitals |-> << >>,
           opportunities |-> << >>,
           diagnostics |-> << >>,
           audits |-> {} ]
    ELSE [ lighthouse_version |-> "local_analysis",
           categories |-> [c \in {"performance"} |->
               [score |-> lh_calculate_local_performance_score(response.load_time,
                                                               response.content_size)]],
           core_web_vitals |-> estimate_core_web_vitals_local(response.load_time,
                                                              response.content_size),
           opportunities |-> identify_local_opportunities(response),
           diagnostics |-> generate_local_diagnostics,
           audits |-> create_local_audits,
           error |-> None ]

\* ---------------------------------------- PerformanceAnalyzer: measurement

\* response: [kind, status, total_time, redirects, compressed]; total_time is
\* already round((end - start) * 1000, 2).
analyze_page_load(response) ==
    IF response.kind = "exception"
    THEN [ total_time |-> 0, status_code |-> 0, redirects |-> 0,
           issues |-> << "analysis_error" >> ]
    ELSE [ total_time |-> response.total_time,
           status_code |-> response.status,
           redirects |-> response.redirects,
           issues |->
               (IF response.total_time > 3000 * MS THEN << "slow_load" >> ELSE << >>)
               \o (IF response.redirects > 2 THEN << "too_many_redirects" >> ELSE << >>)
               \o (IF response.status # 200 THEN << "non_200_status" >> ELSE << >>)
               \o (IF ~response.compressed THEN << "no_compression" >> ELSE << >>) ]

\* response: [kind, content_size, images, scripts, stylesheets]; each of the
\* three is [count, size, issues]: the tags that carry a src/href, the sum of
\* the sizes their HEAD probes report (0 for a failed probe) and the issues
\* the probes append.  An exception of the page fetch is only logged.
analyze_resources(response) ==
    IF response.kind = "exception"
    THEN [ total_size |-> 0, total_requests |-> 0,
           resources |-> [ images |-> [count |-> 0, size |-> 0, issues |-> << >>],
                           scripts |-> [count |-> 0, size |-> 0, issues |-> << >>],
                           stylesheets |-> [count |-> 0, size |-> 0, issues |-> << >>] ] ]
    ELSE [ total_size |-> response.content_size + response.images.size
                          + response.scripts.size + response.stylesheets.size,
           total_requests |-> 1 + response.images.count
                              + response.scripts.count + response.stylesheets.count,
           resources |-> [ images |-> response.images,
                           scripts |-> response.scripts,
                           stylesheets |-> response.stylesheets ] ]

\* dict.get(key, default)
Get(d, k, default) == IF k \in DOMAIN d THEN d[k] ELSE default

\* enhanced formulas: (size/100000)*30 ms = size*3, rc*10 ms = rc*10*MS
enhance_core_web_vitals_with_local_data(details) ==
    LET load_time == Get(details.page_load, "total_time", 0)
        total_size == Get(details.resource_analysis, "total_size", 0)
        resource_count == Get(details.resource_analysis, "total_requests", 0)
        estimated_lcp == load_time + total_size * 3 + resource_count * 10 * MS
        estimated_fid == Min((load_time * 15) \div 100 + resource_count * 5 * MS, 250 * MS)
        estimated_cls == Min(total_size + resource_count * 10000, 3000000)
        estimated_fcp == (load_time * 6) \div 10
        note == "Enhanced with local data"
    IN  [k \in {"lcp", "fid", "cls", "fcp", "enhanced"} |->
            CASE k = "lcp" -> Reading(Round2(estimated_lcp), get_lcp_rating(estimated_lcp), note)
              [] k = "fid" -> Reading(Round2(estimated_fid), get_fid_rating(estimated_fid), note)
              [] k = "cls" -> Reading(Round3(estimated_cls), get_cls_rating(estimated_cls), note)
              [] k = "fcp" -> Reading(Round2(estimated_fcp), get_fcp_rating(estimated_fcp), note)
              [] k = "enhanced" -> TRUE]

\* ---------------------------------------------- PerformanceAnalyzer: score

\* vitals.get(m, {}).get("rating") == "poor"
RatedPoor(vitals, m) == m \in DOMAIN vitals /\ vitals[m].rating = "poor"

\* mutant: the final clamp left out
ClampNone(score) == score

\* max(0, min(100, score))
Clamp(score) == Max(0, Min(100, score))

\* mutant: a value on a cut-off incurs the higher tier
calculate_local_performance_score_Inclusive(details, metrics) ==
    LET load_time == metrics.load_time
        page_size == metrics.page_size
        requests == metrics.requests_count
        vitals == details.core_web_vitals
        p1 == IF load_time >= 5000 * MS THEN 40
              ELSE IF load_time >= 3000 * MS THEN 25
              ELSE IF load_time >= 1000 * MS THEN 15 ELSE 0
        p2 == IF page_size >= 5000000 THEN 30
              ELSE IF page_size >= 2000000 THEN 20
              ELSE IF page_size >= 1000000 THEN 10 ELSE 0
        p3 == IF requests >= 100 THEN 20
              ELSE IF requests >= 50 THEN 10 ELSE 0
        p4 == (IF RatedPoor(vitals, "lcp") THEN 15 ELSE 0)
              + (IF RatedPoor(vitals, "fid") THEN 15 ELSE 0)
              + (IF RatedPoor(vitals, "cls") THEN 10 ELSE 0)
    IN  Clamp(100 - p1 - p2 - p3 - p4)

\* mutant: the two request-count penalties swapped
calculate_local_performance_score_SwappedTiers(details, metrics) ==
    LET load_time == metrics.load_time
        page_size == metrics.page_size
        requests == metrics.requests_count
        vitals == details.core_web_vitals
        p1 == IF load_time > 5000 * MS THEN 40
              ELSE IF load_time > 3000 * MS THEN 25
              ELSE IF load_time > 1000 * MS THEN 15 ELSE 0
        p2 == IF page_size > 5000000 THEN 30
              ELSE IF page_size > 2000000 THEN 20
              ELSE IF page_size > 1000000 THEN 10 ELSE 0
        p3 == IF requests > 100 THEN 10
              ELSE IF requests > 50 THEN 20 ELSE 0
        p4 == (IF RatedPoor(vitals, "lcp") THEN 15 ELSE 0)
              + (IF RatedPoor(vitals, "fid") THEN 15 ELSE 0)
              + (IF RatedPoor(vitals, "cls") THEN 10 ELSE 0)
    IN  Clamp(100 - p1 - p2 - p3 - p4)

calculate_local_performance_score(details, metrics) ==
    LET load_time == metrics.load_time
        page_size == metrics.page_size
        requests == metrics.requests_count
        vitals == details.core_web_vitals
        p1 == IF load_time > 5000 * MS THEN 40
              ELSE IF load_time > 3000 * MS THEN 25
              ELSE IF load_time > 1000 * MS THEN 15 ELSE 0
        p2 == IF page_size > 5000000 THEN 30
              ELSE IF page_size > 2000000 THEN 20
              ELSE IF page_size > 1000000 THEN 10 ELSE 0
        p3 == IF requests > 100 THEN 20
              ELSE IF requests > 50 THEN 10 ELSE 0
        p4 == (IF RatedPoor(vitals, "lcp") THEN 15 ELSE 0)
              + (IF RatedPoor(vitals, "fid") THEN 15 ELSE 0)
              + (IF RatedPoor(vitals, "cls") THEN 10 ELSE 0)
    IN  Clamp(100 - p1 - p2 - p3 - p4)

\* mutant: the blend is applied only when the category score is truthy
calculate_performance_score_Truthy(details, metrics, lighthouse_results) ==
    IF lighthouse_results.error = None
       /\ "performance" \in DOMAIN lighthouse_results.categories
       /\ lighthouse_results.categories["performance"].score # 0
    THEN LET lighthouse_score == lighthouse_results.categories["performance"].score
             local_score == calculate_local_performance_score(details, metrics)
         IN  [ tenths |-> RoundHalfEven(70 * lighthouse_score + 30 * local_score, 10),
               type |-> "float" ]
    ELSE [ tenths |-> 10 * calculate_local_performance_score(details, metrics),
           type |-> "int" ]

\* mutant: the blend is rounded to a whole number
calculate_performance_score_RoundInt(details, metrics, lighthouse_results) ==
    IF lighthouse_results.error = None
       /\ "performance" \in DOMAIN lighthouse_results.categories
    THEN LET lighthouse_score == lighthouse_results.categories["performance"].score
             local_score == calculate_local_performance_score(details, metrics)
         IN  [ tenths |-> 10 * RoundHalfEven(70 * lighthouse_score + 30 * local_score, 100),
               type |-> "int" ]
    ELSE [ tenths |-> 10 * calculate_local_performance_score(details, metrics),
           type |-> "int" ]

\* mutant: the category score is blended whether or not the signal has an error
calculate_performance_score_IgnoreError(details, metrics, lighthouse_results) ==
    IF "performance" \in DOMAIN lighthouse_results.categories
    THEN LET lighthouse_score == lighthouse_results.categories["performance"].score
             local_score == calculate_local_performance_score(details, metrics)
         IN  [ tenths |-> RoundHalfEven(70 * lighthouse_score + 30 * local_score, 10),
               type |-> "float" ]
    ELSE [ tenths |-> 10 * calculate_local_performance_score(details, metrics),
           type |-> "int" ]

\* The score as Python holds it: its value in tenths and its type.
\* lighthouse_score*0.7 + local_score*0.3 is (70*l + 30*s)/100; round(_, 1).
calculate_performance_score(details, metrics, lighthouse_results) ==
    IF lighthouse_results.error = None
       /\ "performance" \in DOMAIN lighthouse_results.categories
    THEN LET lighthouse_score == lighthouse_results.categories["performance"].score
             local_score == calculate_local_performance_score(details, metrics)
         IN  [ tenths |-> RoundHalfEven(70 * lighthouse_score + 30 * local_score, 10),
               type |-> "float" ]
    ELSE [ tenths |-> 10 * calculate_local_performance_score(details, metrics),
           type |-> "int" ]

\* ------------------------------------ PerformanceAnalyzer: recommendations

\* the keys of the `fixes` table
FixIds ==
    { "unused-css-rules", "unused-javascript", "modern-image-formats",
      "offscreen-images", "render-blocking-resources", "unminified-css",
      "unminified-javascript", "efficient-animated-content",
      "duplicated-javascript", "legacy-javascript" }

\* the remediation text, named by its table key; "generic" is the templated
\* "Address the <title> identified by Lighthouse."
get_lighthouse_opportunity_fix(opportunity) ==
    IF opportunity.id \in FixIds THEN opportunity.id ELSE "generic"

Entry(t, c, ref, sev, fix) ==
    [type |-> t, category |-> c, ref |-> ref, severity |-> sev, recommendation |-> fix]

RECURSIVE OppRecommendations_HighAtHalf(_)
\* mutant: an opportunity with score exactly 0.5 is given severity high
OppRecommendations_HighAtHalf(opportunities) ==
    IF opportunities = << >> THEN << >>
    ELSE LET o == Head(opportunities)
         IN  (IF o.score < 90
              THEN << Entry("lighthouse-opportunity", "performance", o.id,
                            IF o.score <= 50 THEN "high" ELSE "medium",
                            get_lighthouse_opportunity_fix(o)) >>
              ELSE << >>) \o OppRecommendations_HighAtHalf(Tail(opportunities))

RECURSIVE OppRecommendations(_)
OppRecommendations(opportunities) ==
    IF opportunities = << >> THEN << >>
    ELSE LET o == Head(opportunities)
         IN  (IF o.score < 90
              THEN << Entry("lighthouse-opportunity", "performance", o.id,
                            IF o.score < 50 THEN "high" ELSE "medium",
                            get_lighthouse_opportunity_fix(o)) >>
              ELSE << >>) \o OppRecommendations(Tail(opportunities))

VitalWarning(core_vitals, m) ==
    IF m \in DOMAIN core_vitals
       /\ core_vitals[m].rating \in {"needs-improvement", "poor"}
    THEN << Entry("core-web-vitals", "", m,
                  IF core_vitals[m].rating = "poor" THEN "high" ELSE "medium", "") >>
    ELSE << >>

add_lighthouse_recommendations(res, lighthouse_results) ==
    [res EXCEPT
        !.recommendations = @ \o OppRecommendations(lighthouse_results.opportunities),
        !.warnings = @ \o VitalWarning(lighthouse_results.core_web_vitals, "lcp")
                       \o VitalWarning(lighthouse_results.core_web_vitals, "cls")]

generate_local_recommendations(res) ==
    [res EXCEPT
        !.issues = @ \o (IF res.metrics.load_time > 3000 * MS
                         THEN << Entry("performance", "", "load_time", "high", "") >>
                         ELSE << >>),
        !.warnings = @ \o (IF res.metrics.page_size > 2000000
                           THEN << Entry("performance", "", "page_size", "medium", "") >>
                           ELSE << >>)]

RECURSIVE IssueRecommendations(_, _)
IssueRecommendations(issues, category) ==
    IF issues = << >> THEN << >>
    ELSE << Entry("optimization", category, Head(issues), "", "") >>
         \o IssueRecommendations(Tail(issues), category)

generate_resource_recommendations(res) ==
    LET resources == Get(res.details.resource_analysis, "resources",
                         [images |-> [issues |-> << >>], scripts |-> [issues |-> << >>]])
    IN  [res EXCEPT
            !.recommendations = @ \o IssueRecommendations(resources.images.issues, "images")
                                  \o IssueRecommendations(resources.scripts.issues, "scripts")]

generate_recommendations(res, lighthouse_results) ==
    LET r1 == IF lighthouse_results.error = None
              THEN add_lighthouse_recommendations(res, lighthouse_results)
              ELSE res
    IN  generate_resource_recommendations(generate_local_recommendations(r1))

\* ------------------------------------------------------------ environment
\* What the network can answer.  Representative values on both sides of the
\* cut-offs the code compares against.

Au(score, numericValue) == [score |-> score, numericValue |-> numericValue]

A_none == [a \in {} |-> Au(0, 0)]

A_good ==
    ("largest-contentful-paint" :> Au(100, 2000 * MS))
    @@ ("total-blocking-time" :> Au(100, 100 * MS))
    @@ ("cumulative-layout-shift" :> Au(100, 500000))
    @@ ("first-contentful-paint" :> Au(100, 1000 * MS))
    @@ ("unused-css-rules" :> Au(40, 0))
    @@ ("server-response-time" :> Au(100, 120 * MS))

\* no first-contentful-paint audit: only three of the four vitals
A_poor ==
    ("largest-contentful-paint" :> Au(10, 4500 * MS))
    @@ ("total-blocking-time" :> Au(20, 2000 * MS))
    @@ ("cumulative-layout-shift" :> Au(0, 3000000))
    @@ ("render-blocking-resources" :> Au(50, 0))
    @@ ("unused-javascript" :> Au(95, 0))
    @@ ("legacy-javascript" :> Au(100, 0))
    @@ ("dom-size" :> Au(60, 0))

AuditProfiles == { A_none, A_good, A_poor }

\* the API's category score, in 1/1000 of its 0..1 range
ApiScores == { 0, 796, 1000 }

CategoryProfiles ==
    { [c \in {} |-> [score |-> 0]] }
    \cup { [c \in {"performance"} |-> [score |-> x]] : x \in ApiScores }

NoBody == [shape |-> "none", version |-> "", categories |-> [c \in {} |-> [score |-> 0]],
           audits |-> A_none]

OkBodies ==
    { [shape |-> "ok", version |-> "10.0", categories |-> c, audits |-> a] :
          c \in CategoryProfiles, a \in AuditProfiles }

MalformedBodies ==
    { [NoBody EXCEPT !.shape = "no_lighthouseResult"],
      [NoBody EXCEPT !.shape = "bad_types"] }

ApiResponses ==
    { [kind |-> "exception", status |-> 0, body |-> NoBody] }
    \cup { [kind |-> "response", status |-> st, body |-> NoBody] : st \in {429, 500} }
    \cup { [kind |-> "response", status |-> 200, body |-> b] :
               b \in OkBodies \cup MalformedBodies }

\* the audited page as LighthouseAPI._perform_local_analysis fetches it
LocalResponses ==
    { [kind |-> "exception", status |-> 0, load_time |-> 0, content_size |-> 0,
       html_len |-> 0, style_tags |-> 0, compressed |-> FALSE],
      [kind |-> "response", status |-> 200, load_time |-> 800 * MS, content_size |-> 50000,
       html_len |-> 50000, style_tags |-> 0, compressed |-> TRUE],
      [kind |-> "response", status |-> 200, load_time |-> 3500 * MS, content_size |-> 1200000,
       html_len |-> 1200000, style_tags |-> 3, compressed |-> FALSE],
      [kind |-> "response", status |-> 200, load_time |-> 6000 * MS, content_size |-> 6000000,
       html_len |-> 6000000, style_tags |-> 1, compressed |-> FALSE],
      [kind |-> "response", status |-> 500, load_time |-> 300 * MS, content_size |-> 1000,
       html_len |-> 1000, style_tags |-> 0, compressed |-> FALSE],
      [kind |-> "response", status |-> 429, load_time |-> 200 * MS, content_size |-> 500,
       html_len |-> 500, style_tags |-> 0, compressed |-> FALSE] }

\* the audited page as PerformanceAnalyzer._analyze_page_load fetches it
PageResponses ==
    { [kind |-> "exception", status |-> 0, total_time |-> 0, redirects |-> 0,
       compressed |-> FALSE],
      [kind |-> "response", status |-> 200, total_time |-> 800 * MS, redirects |-> 0,
       compressed |-> TRUE],
      [kind |-> "response", status |-> 200, total_time |-> 3500 * MS, redirects |-> 1,
       compressed |-> FALSE],
      [kind |-> "response", status |-> 404, total_time |-> 6000 * MS, redirects |-> 3,
       compressed |-> FALSE] }

Sub(count, size, issues) == [count |-> count, size |-> size, issues |-> issues]

\* the audited page as PerformanceAnalyzer._analyze_resources fetches it
ResourceResponses ==
    { [kind |-> "exception", content_size |-> 0, images |-> Sub(0, 0, << >>),
       scripts |-> Sub(0, 0, << >>), stylesheets |-> Sub(0, 0, << >>)],
      [kind |-> "response", content_size |-> 50000,
       images |-> Sub(3, 200000, << "modern_format" >>),
       scripts |-> Sub(2, 80000, << "minification" >>),
       stylesheets |-> Sub(1, 10000, << >>)],
      [kind |-> "response", content_size |-> 991000,
       images |-> Sub(0, 0, << >>), scripts |-> Sub(0, 0, << >>),
       stylesheets |-> Sub(0, 0, << >>)],
      [kind |-> "response", content_size |-> 1200000,
       images |-> Sub(40, 1000000, << >>),
       scripts |-> Sub(15, 300000, << "large_script" >>),
       stylesheets |-> Sub(5, 60000, << "large_css" >>)],
      [kind |-> "response", content_size |-> 2000000,
       images |-> Sub(80, 3500000, << "large_image", "modern_format" >>),
       scripts |-> Sub(30, 900000, << "large_script" >>),
       stylesheets |-> Sub(10, 100000, << >>)] }

\* --------------------------------------------------------------- the audit

EmptyDict == [k \in {} |-> 0]

\* `results` of LighthouseAPI.analyze_url as first built
InitialSignal ==
    [ url |-> TargetUrl, strategy |-> "desktop", timestamp |-> "t0",
      lighthouse_version |-> "", categories |-> EmptyDict, audits |-> {},
      core_web_vitals |-> EmptyDict, opportunities |-> << >>, diagnostics |-> << >>,
      error |-> None, data_source |-> "unknown", fallback_used |-> FALSE ]

\* `results` of PerformanceAnalyzer.analyze as first built
InitialResults ==
    [ score |-> [tenths |-> 0, type |-> "int"],
      issues |-> << >>, warnings |-> << >>, recommendations |-> << >>,
      metrics |-> [load_time |-> 0, page_size |-> 0, requests_count |-> 0],
      details |-> [ page_load |-> EmptyDict, resource_analysis |-> EmptyDict,
                    core_web_vitals |-> EmptyDict, lighthouse |-> EmptyDict,
                    data_sources |-> << >> ] ]

\* no method is being called on its own
NoCalc == [fn |-> "none"]

\* no second request is being served
NoAudit == [pc |-> "none"]

Init ==
    /\ pc = "try_primary"
    /\ fb_i = 1
    /\ attempts = << >>
    /\ lh = InitialSignal
    /\ results = InitialResults
    /\ data_sources = << >>
    /\ runs = [page_load |-> 0, resources |-> 0]
    /\ failed = {}
    /\ calc = NoCalc
    /\ other = NoAudit

\* one request of the source chain, as the coordinator saw it
Attempt(src, url, response, result) ==
    [ src |-> src, url |-> url, kind |-> response.kind, status |-> response.status,
      shape |-> IF "body" \in DOMAIN response THEN response.body.shape ELSE "page",
      error |-> result.error ]

\* f"fallback_api_{i+1}" for the i-th entry (counted from 1 here)
FallbackId(i) == IF i = 1 THEN "fallback_api_1" ELSE "fallback_api_2"

\* mutant: the `return results` after a successful primary attempt left out
TryPrimary_NoReturn ==
    /\ pc = "try_primary"
    /\ \E response \in ApiResponses :
          LET lighthouse_result == try_lighthouse_api(response)
          IN  /\ attempts' = Append(attempts,
                                    Attempt("lighthouse_api", base_url, response,
                                            lighthouse_result))
              /\ lh' = IF Succeeded(lighthouse_result)
                       THEN Update(Update(lh, lighthouse_result),
                                   [data_source |-> "lighthouse_api"])
                       ELSE lh
              /\ pc' = "try_fallback"
    /\ UNCHANGED <<fb_i, results, data_sources, runs, failed, calc, other>>

\* mutant: a rate-limited primary request is sent again
TryPrimary_RetryRateLimited ==
    /\ pc = "try_primary"
    /\ \E response \in ApiResponses :
          LET lighthouse_result == try_lighthouse_api(response)
          IN  /\ attempts' = Append(attempts,
                                    Attempt("lighthouse_api", base_url, response,
                                            lighthouse_result))
              /\ IF Succeeded(lighthouse_result)
                 THEN /\ lh' = Update(Update(lh, lighthouse_result),
                                      [data_source |-> "lighthouse_api"])
                      /\ pc' = "extract"
                 ELSE /\ lh' = lh
                      /\ pc' = IF response.status = 429 THEN pc ELSE "try_fallback"
    /\ UNCHANGED <<fb_i, results, data_sources, runs, failed, calc, other>>

\* mutant: the result of the primary attempt is merged before it is tested
TryPrimary_MergeFailed ==
    /\ pc = "try_primary"
    /\ \E response \in ApiResponses :
          LET lighthouse_result == try_lighthouse_api(response)
          IN  /\ attempts' = Append(attempts,
                                    Attempt("lighthouse_api", base_url, response,
                                            lighthouse_result))
              /\ IF Succeeded(lighthouse_result)
                 THEN /\ lh' = Update(Update(lh, lighthouse_result),
                                      [data_source |-> "lighthouse_api"])
                      /\ pc' = "extract"
                 ELSE /\ lh' = Update(lh, lighthouse_result)
                      /\ pc' = "try_fallback"
    /\ UNCHANGED <<fb_i, results, data_sources, runs, failed, calc, other>>

\* analyze_url, lines 51-57: the primary API
TryPrimary ==
    /\ pc = "try_primary"
    /\ \E response \in ApiResponses :
          LET lighthouse_result == try_lighthouse_api(response)
          IN  /\ attempts' = Append(attempts,
                                    Attempt("lighthouse_api", base_url, response,
                                            lighthouse_result))
              /\ IF Succeeded(lighthouse_result)
                 THEN /\ lh' = Update(Update(lh, lighthouse_result),
                                      [data_source |-> "lighthouse_api"])
                      /\ pc' = "extract"
                 ELSE /\ lh' = lh
                      /\ pc' = "try_fallback"
    /\ UNCHANGED <<fb_i, results, data_sources, runs, failed, calc, other>>

\* mutant: a failed fallback is tried again instead of moving on
TryFallback_RetrySame ==
    /\ pc = "try_fallback"
    /\ \E response \in ApiResponses :
          LET fallback_result == try_fallback_api(response)
          IN  /\ attempts' = Append(attempts,
                                    Attempt(FallbackId(fb_i), fallback_apis[fb_i], response,
                                            fallback_result))
              /\ IF Succeeded(fallback_result)
                 THEN /\ lh' = Update(Update(lh, fallback_result),
                                      [data_source |-> FallbackId(fb_i),
                                       fallback_used |-> TRUE])
                      /\ pc' = "extract"
                 ELSE /\ lh' = lh
                      /\ pc' = pc
    /\ UNCHANGED <<fb_i, results, data_sources, runs, failed, calc, other>>

\* mutant: results["fallback_used"] = True left out for the fallback APIs
TryFallback_NoFlag ==
    /\ pc = "try_fallback"
    /\ \E response \in ApiResponses :
          LET fallback_result == try_fallback_api(response)
          IN  /\ attempts' = Append(attempts,
                                    Attempt(FallbackId(fb_i), fallback_apis[fb_i], response,
                                            fallback_result))
              /\ IF Succeeded(fallback_result)
                 THEN /\ lh' = Update(Update(lh, fallback_result),
                                      [data_source |-> FallbackId(fb_i)])
                      /\ pc' = "extract"
                      /\ fb_i' = fb_i
                 ELSE /\ lh' = lh
                      /\ IF fb_i < Len(fallback_apis)
                         THEN pc' = pc /\ fb_i' = fb_i + 1
                         ELSE pc' = "try_local" /\ fb_i' = fb_i
    /\ UNCHANGED <<results, data_sources, runs, failed, calc, other>>

\* analyze_url, lines 59-68: one turn of the loop over fallback_apis
TryFallback ==
    /\ pc = "try_fallback"
    /\ \E response \in ApiResponses :
          LET fallback_result == try_fallback_api(response)
          IN  /\ attempts' = Append(attempts,
                                    Attempt(FallbackId(fb_i), fallback_apis[fb_i], response,
                                            fallback_result))
              /\ IF Succeeded(fallback_result)
                 THEN /\ lh' = Update(Update(lh, fallback_result),
                                      [data_source |-> FallbackId(fb_i),
                                       fallback_used |-> TRUE])
                      /\ pc' = "extract"
                      /\ fb_i' = fb_i
                 ELSE /\ lh' = lh
                      /\ IF fb_i < Len(fallback_apis)
                         THEN pc' = pc /\ fb_i' = fb_i + 1
                         ELSE pc' = "try_local" /\ fb_i' = fb_i
    /\ UNCHANGED <<results, data_sources, runs, failed, calc, other>>

\* mutant: results["fallback_used"] = True left out for local analysis
TryLocal_NoFlag ==
    /\ pc = "try_local"
    /\ \E response \in LocalResponses :
          LET local_result == perform_local_analysis(response)
          IN  /\ attempts' = Append(attempts,
                                    Attempt("local_analysis", TargetUrl, response,
                                            local_result))
              /\ lh' = Update(Update(lh, local_result),
                              [data_source |-> "local_analysis"])
              /\ failed' = IF local_result.error # None
                           THEN failed \cup {"sources"} ELSE failed
    /\ pc' = "extract"
    /\ UNCHANGED <<fb_i, results, data_sources, runs, calc, other>>

\* mutant: the error of a failed local analysis is not taken over
TryLocal_DropError ==
    /\ pc = "try_local"
    /\ \E response \in LocalResponses :
          LET local_result == perform_local_analysis(response)
          IN  /\ attempts' = Append(attempts,
                                    Attempt("local_analysis", TargetUrl, response,
                                            local_result))
              /\ lh' = Update(Update(lh, local_result),
                              [data_source |-> "local_analysis", fallback_used |-> TRUE,
                               error |-> None])
              /\ failed' = IF local_result.error # None
                           THEN failed \cup {"sources"} ELSE failed
    /\ pc' = "extract"
    /\ UNCHANGED <<fb_i, results, data_sources, runs, calc, other>>

\* analyze_url, lines 70-77: local analysis as the last source
TryLocal ==
    /\ pc = "try_local"
    /\ \E response \in LocalResponses :
          LET local_result == perform_local_analysis(response)
          IN  /\ attempts' = Append(attempts,
                                    Attempt("local_analysis", TargetUrl, response,
                                            local_result))
              /\ lh' = Update(Update(lh, local_result),
                              [data_source |-> "local_analysis", fallback_used |-> TRUE])
              /\ failed' = IF local_result.error # None
                           THEN failed \cup {"sources"} ELSE failed
    /\ pc' = "extract"
    /\ UNCHANGED <<fb_i, results, data_sources, runs, calc, other>>

\* f"lighthouse_{data_source}"
SourceLabel(data_source) ==
    CASE data_source = "lighthouse_api" -> "lighthouse_lighthouse_api"
      [] data_source = "fallback_api_1" -> "lighthouse_fallback_api_1"
      [] data_source = "fallback_api_2" -> "lighthouse_fallback_api_2"
      [] data_source = "local_analysis" -> "lighthouse_local_analysis"
      [] OTHER -> "lighthouse_unknown"

\* mutant: the local measurement is run only when the source chain failed
ExtractLighthouse_SkipLocal ==
    /\ pc = "extract"
    /\ data_sources' = Append(data_sources, SourceLabel(lh.data_source))
    /\ results' =
          IF lh.error = None
          THEN [results EXCEPT
                  !.details.lighthouse = lh,
                  !.details.core_web_vitals = lh.core_web_vitals,
                  !.metrics = Update(@, [lighthouse_score |->
                        IF "performance" \in DOMAIN lh.categories
                        THEN lh.categories["performance"].score ELSE 0])]
          ELSE [results EXCEPT !.details.lighthouse = lh]
    /\ pc' = IF lh.error = None THEN "score" ELSE "page_load"
    /\ UNCHANGED <<fb_i, attempts, lh, runs, failed, calc, other>>

\* mutant: every attempted source is listed, not only the adopted one
ExtractLighthouse_ListAttempts ==
    /\ pc = "extract"
    /\ data_sources' = data_sources
                       \o [i \in DOMAIN attempts |-> SourceLabel(attempts[i].src)]
    /\ results' =
          IF lh.error = None
          THEN [results EXCEPT
                  !.details.lighthouse = lh,
                  !.details.core_web_vitals = lh.core_web_vitals,
                  !.metrics = Update(@, [lighthouse_score |->
                        IF "performance" \in DOMAIN lh.categories
                        THEN lh.categories["performance"].score ELSE 0])]
          ELSE [results EXCEPT !.details.lighthouse = lh]
    /\ pc' = "page_load"
    /\ UNCHANGED <<fb_i, attempts, lh, runs, failed, calc, other>>

\* analyze, lines 46-56: take over what analyze_url returned
ExtractLighthouse ==
    /\ pc = "extract"
    /\ data_sources' = Append(data_sources, SourceLabel(lh.data_source))
    /\ results' =
          IF lh.error = None
          THEN [results EXCEPT
                  !.details.lighthouse = lh,
                  !.details.core_web_vitals = lh.core_web_vitals,
                  !.metrics = Update(@, [lighthouse_score |->
                        IF "performance" \in DOMAIN lh.categories
                        THEN lh.categories["performance"].score ELSE 0])]
          ELSE [results EXCEPT !.details.lighthouse = lh]
    /\ pc' = "page_load"
    /\ UNCHANGED <<fb_i, attempts, lh, runs, failed, calc, other>>

\* analyze, lines 61-65
PageLoad ==
    /\ pc = "page_load"
    /\ \E response \in PageResponses :
          LET load_results == analyze_page_load(response)
          IN  /\ results' = [results EXCEPT
                               !.details.page_load = load_results,
                               !.metrics.load_time = load_results.total_time]
              /\ failed' = IF response.kind = "exception"
                           THEN failed \cup {"page_load"} ELSE failed
    /\ data_sources' = Append(data_sources, "local_page_load")
    /\ runs' = [runs EXCEPT !.page_load = @ + 1]
    /\ pc' = "resources"
    /\ UNCHANGED <<fb_i, attempts, lh, calc, other>>

\* analyze, lines 67-72
Resources ==
    /\ pc = "resources"
    /\ \E response \in ResourceResponses :
          LET resource_results == analyze_resources(response)
          IN  /\ results' = [results EXCEPT
                               !.details.resource_analysis = resource_results,
                               !.metrics.page_size = resource_results.total_size,
                               !.metrics.requests_count = resource_results.total_requests]
              /\ failed' = IF response.kind = "exception"
                           THEN failed \cup {"resources"} ELSE failed
    /\ data_sources' = Append(data_sources, "local_resource_analysis")
    /\ runs' = [runs EXCEPT !.resources = @ + 1]
    /\ pc' = "enhance"
    /\ UNCHANGED <<fb_i, attempts, lh, calc, other>>

\* mutant: the vitals are estimated only when the signal has an error
EnhanceVitals_OnErrorOnly ==
    /\ pc = "enhance"
    /\ IF lh.error # None
       THEN /\ results' = [results EXCEPT !.details.core_web_vitals =
                               enhance_core_web_vitals_with_local_data(results.details)]
            /\ data_sources' = Append(data_sources, "enhanced_core_web_vitals")
       ELSE UNCHANGED <<results, data_sources>>
    /\ pc' = "score"
    /\ UNCHANGED <<fb_i, attempts, lh, runs, failed, calc, other>>

\* analyze, lines 74-79
EnhanceVitals ==
    /\ pc = "enhance"
    /\ IF lh.error # None \/ DOMAIN lh.core_web_vitals = {}
       THEN /\ results' = [results EXCEPT !.details.core_web_vitals =
                               enhance_core_web_vitals_with_local_data(results.details)]
            /\ data_sources' = Append(data_sources, "enhanced_core_web_vitals")
       ELSE UNCHANGED <<results, data_sources>>
    /\ pc' = "score"
    /\ UNCHANGED <<fb_i, attempts, lh, runs, failed, calc, other>>

\* analyze, line 82
Score ==
    /\ pc = "score"
    /\ results' = [results EXCEPT !.score =
                      calculate_performance_score(results.details, results.metrics, lh)]
    /\ pc' = "recommend"
    /\ UNCHANGED <<fb_i, attempts, lh, data_sources, runs, failed, calc, other>>

\* analyze, line 85
Recommend ==
    /\ pc = "recommend"
    /\ results' = generate_recommendations(results, lh)
    /\ pc' = "record"
    /\ UNCHANGED <<fb_i, attempts, lh, data_sources, runs, failed, calc, other>>

\* analyze, lines 87-99: record the data sources and return
Return ==
    /\ pc = "record"
    /\ results' = [results EXCEPT !.details.data_sources = data_sources]
    /\ pc' = "done"
    /\ UNCHANGED <<fb_i, attempts, lh, data_sources, runs, failed, calc, other>>

Next ==
    \/ TryPrimary
    \/ TryFallback
    \/ TryLocal
    \/ ExtractLighthouse
    \/ PageLoad
    \/ Resources
    \/ EnhanceVitals
    \/ Score
    \/ Recommend
    \/ Return

Spec == Init /\ [][Next]_vars

\* every call of the audit is synchronous and returns: the next step is taken
FairSpec == Spec /\ WF_vars(Next)

\* ------------------------------------------- methods called on their own
\* One method of the analyzers is called with arguments of its own choosing:
\* calc.fn names it, calc.in holds the arguments, calc.out the value it
\* returned last, calc.prev the one before, calc.calls the number of calls.

\* os.getenv(name, default) with the process environment env
Getenv(env, name, default) == IF name \in DOMAIN env THEN env[name] ELSE default

\* AuditConfig.__init__: the Core Web Vitals thresholds, times in ms, CLS in 1/10^7
AuditConfig(env) ==
    [ lcp_good_threshold |-> Getenv(env, "LCP_GOOD_THRESHOLD", 2500),
      lcp_needs_improvement_threshold |-> Getenv(env, "LCP_NEEDS_IMPROVEMENT_THRESHOLD", 4000),
      fid_good_threshold |-> Getenv(env, "FID_GOOD_THRESHOLD", 100),
      fid_needs_improvement_threshold |-> Getenv(env, "FID_NEEDS_IMPROVEMENT_THRESHOLD", 300),
      cls_good_threshold |-> Getenv(env, "CLS_GOOD_THRESHOLD", 1000000),
      cls_needs_improvement_threshold |-> Getenv(env, "CLS_NEEDS_IMPROVEMENT_THRESHOLD", 2500000),
      fcp_good_threshold |-> Getenv(env, "FCP_GOOD_THRESHOLD", 1800),
      fcp_needs_improvement_threshold |-> Getenv(env, "FCP_NEEDS_IMPROVEMENT_THRESHOLD", 3000) ]

\* AuditConfig.get_core_web_vitals_thresholds, in the units of the readings
get_core_web_vitals_thresholds(config) ==
    [ lcp |-> [ good |-> config.lcp_good_threshold * MS,
                needs_improvement |-> config.lcp_needs_improvement_threshold * MS ],
      fid |-> [ good |-> config.fid_good_threshold * MS,
                needs_improvement |-> config.fid_needs_improvement_threshold * MS ],
      cls |-> [ good |-> config.cls_good_threshold,
                needs_improvement |-> config.cls_needs_improvement_threshold ],
      fcp |-> [ good |-> config.fcp_good_threshold * MS,
                needs_improvement |-> config.fcp_needs_improvement_threshold * MS ] ]

\* the process environments tried: nothing set, or one threshold overridden
Environments ==
    { EmptyDict,
      [v \in {"LCP_GOOD_THRESHOLD"} |-> 2000],
      [v \in {"FID_NEEDS_IMPROVEMENT_THRESHOLD"} |-> 200] }

\* how often a method is called again with the same arguments
MaxCalls == 2

\* arguments of _calculate_local_performance_score: on, just above and away
\* from every cut-off, with every combination of ratings
ScoreLoadTimes ==
    { 0, 1000 * MS, 1000 * MS + 100, 3000 * MS, 3000 * MS + 100, 5000 * MS, 5000 * MS + 100 }

ScorePageSizes == { 0, 1000000, 1000001, 2000000, 2000001, 5000000, 5000001 }

ScoreRequestCounts == { 0, 50, 51, 100, 101 }

ScoreVitals ==
    { EmptyDict }
    \cup { [m \in {"lcp", "fid", "cls"} |-> Reading(0, r[m], "")] :
               r \in [{"lcp", "fid", "cls"} -> {"good", "needs-improvement", "poor"}] }

ScoreCalls ==
    { [ fn |-> "local_score", calls |-> 0, out |-> 0, prev |-> 0,
        in |-> [ details |-> [core_web_vitals |-> v],
                 metrics |-> [load_time |-> t, page_size |-> s, requests_count |-> n] ] ] :
          t \in ScoreLoadTimes, s \in ScorePageSizes, n \in ScoreRequestCounts,
          v \in ScoreVitals }

\* arguments of the _get_*_rating methods: on, just above and one unit above
\* each cut-off (times in 1/10000 ms, CLS in 1/10^7)
RatingValues ==
    [ lcp |-> { 0, 2000 * MS, 2300 * MS, 2500 * MS, 2500 * MS + 1, 2501 * MS,
                4000 * MS, 4000 * MS + 1, 4001 * MS, 9000 * MS },
      fid |-> { 0, 100 * MS, 100 * MS + 1, 101 * MS, 200 * MS, 250 * MS,
                300 * MS, 300 * MS + 1, 301 * MS },
      cls |-> { 0, 1000000, 1000001, 1010000, 2500000, 2500001, 2510000, 3000000 },
      fcp |-> { 0, 1800 * MS, 1800 * MS + 1, 1801 * MS, 3000 * MS,
                3000 * MS + 1, 3001 * MS, 7000 * MS } ]

RatingCalls ==
    { [ fn |-> "rating", calls |-> 0,
        out |-> [analyzer |-> "", lighthouse |-> ""],
        prev |-> [analyzer |-> "", lighthouse |-> ""],
        in |-> [metric |-> mv[1], value |-> mv[2], env |-> e] ] :
          mv \in UNION { {m} \X RatingValues[m] : m \in DOMAIN RatingValues },
          e \in Environments }

\* arguments of LighthouseAPI._estimate_core_web_vitals_local
EstimateLoadTimes == { 0, 800 * MS, 1000 * MS, 2000 * MS, 2500 * MS + 50, 3500 * MS, 6000 * MS }

EstimateSizes == { 0, 7, 50000, 1000000, 1000001, 1200000, 6000000, 40000000 }

EstimateCalls ==
    { [ fn |-> "estimate_local", calls |-> 0, out |-> EmptyDict, prev |-> EmptyDict,
        in |-> [load_time |-> t, content_size |-> s] ] :
          t \in EstimateLoadTimes, s \in EstimateSizes }

\* the external scores of the signal handed to a pair of calls of
\* _calculate_performance_score
PairScores == { 35, 80 }

\* the arguments that differ from (details, metrics) in one place: a larger
\* load_time, page_size or requests_count, or one vital more rated poor
Worsened(details, metrics) ==
    { [details |-> details, metrics |-> [metrics EXCEPT !.load_time = t]] :
          t \in { x \in ScoreLoadTimes : x > metrics.load_time } }
    \cup { [details |-> details, metrics |-> [metrics EXCEPT !.page_size = s]] :
               s \in { x \in ScorePageSizes : x > metrics.page_size } }
    \cup { [details |-> details, metrics |-> [metrics EXCEPT !.requests_count = n]] :
               n \in { x \in ScoreRequestCounts : x > metrics.requests_count } }
    \cup { [details |-> [core_web_vitals |->
                            [details.core_web_vitals EXCEPT ![m].rating = "poor"]],
            metrics |-> metrics] :
               m \in { x \in DOMAIN details.core_web_vitals :
                          details.core_web_vitals[x].rating # "poor" } }

PairCalls ==
    { [ fn |-> "score_pair", calls |-> 0,
        out |-> [second |-> c.in, local |-> 0, worse_local |-> 0,
                 score |-> [tenths |-> 0, type |-> "int"],
                 worse_score |-> [tenths |-> 0, type |-> "int"]],
        prev |-> [second |-> c.in, local |-> 0, worse_local |-> 0,
                  score |-> [tenths |-> 0, type |-> "int"],
                  worse_score |-> [tenths |-> 0, type |-> "int"]],
        in |-> [ first |-> c.in,
                 lighthouse_results |->
                     [InitialSignal EXCEPT
                          !.data_source = "lighthouse_api",
                          !.categories = [k \in {"performance"} |-> [score |-> e]]] ] ] :
          c \in ScoreCalls, e \in PairScores }

CalcInit ==
    /\ pc = "calc"
    /\ fb_i = 1
    /\ attempts = << >>
    /\ lh = InitialSignal
    /\ results = InitialResults
    /\ data_sources = << >>
    /\ runs = [page_load |-> 0, resources |-> 0]
    /\ failed = {}
    /\ \/ calc \in ScoreCalls
       \/ calc \in RatingCalls
       \/ calc \in EstimateCalls
       \/ calc \in PairCalls
    /\ other = NoAudit

\* what a call leaves behind
Called(c, value) == [c EXCEPT !.calls = @ + 1, !.prev = c.out, !.out = value]

\* one call of PerformanceAnalyzer._calculate_local_performance_score
ApplyLocalScore ==
    /\ pc = "calc"
    /\ calc.fn = "local_score"
    /\ calc.calls < MaxCalls
    /\ calc' = Called(calc, calculate_local_performance_score(calc.in.details, calc.in.metrics))
    /\ UNCHANGED <<pc, fb_i, attempts, lh, results, data_sources, runs, failed, other>>

\* one call of _get_<metric>_rating of each class; neither reads the
\* thresholds of AuditConfig
ApplyRating ==
    /\ pc = "calc"
    /\ calc.fn = "rating"
    /\ calc.calls < MaxCalls
    /\ LET v == calc.in.value
           m == calc.in.metric
       IN  calc' = Called(calc,
              [ analyzer |-> CASE m = "lcp" -> get_lcp_rating(v)
                               [] m = "fid" -> get_fid_rating(v)
                               [] m = "cls" -> get_cls_rating(v)
                               [] m = "fcp" -> get_fcp_rating(v),
                lighthouse |-> CASE m = "lcp" -> lh_get_lcp_rating(v)
                                 [] m = "fid" -> lh_get_fid_rating(v)
                                 [] m = "cls" -> lh_get_cls_rating(v)
                                 [] m = "fcp" -> lh_get_fcp_rating(v) ])
    /\ UNCHANGED <<pc, fb_i, attempts, lh, results, data_sources, runs, failed, other>>

\* one call of LighthouseAPI._estimate_core_web_vitals_local
ApplyEstimate ==
    /\ pc = "calc"
    /\ calc.fn = "estimate_local"
    /\ calc.calls < MaxCalls
    /\ calc' = Called(calc,
                  estimate_core_web_vitals_local(calc.in.load_time, calc.in.content_size))
    /\ UNCHANGED <<pc, fb_i, attempts, lh, results, data_sources, runs, failed, other>>

\* _calculate_performance_score called on the first and then on the second
\* arguments of a pair
ApplyScorePair ==
    /\ pc = "calc"
    /\ calc.fn = "score_pair"
    /\ calc.calls = 0
    /\ \E b \in Worsened(calc.in.first.details, calc.in.first.metrics) :
          LET a == calc.in.first
              sig == calc.in.lighthouse_results
          IN  calc' = Called(calc,
                         [ second |-> b,
                           local |-> calculate_local_performance_score(a.details, a.metrics),
                           worse_local |-> calculate_local_performance_score(b.details, b.metrics),
                           score |-> calculate_performance_score(a.details, a.metrics, sig),
                           worse_score |-> calculate_performance_score(b.details, b.metrics, sig) ])
    /\ UNCHANGED <<pc, fb_i, attempts, lh, results, data_sources, runs, failed, other>>

CalcNext ==
    \/ ApplyLocalScore
    \/ ApplyRating
    \/ ApplyEstimate
    \/ ApplyScorePair

CalcSpec == CalcInit /\ [][CalcNext]_vars

\* ------------------------------------- analyze on a signal handed to it
\* PerformanceAnalyzer.analyze from the line after its call of
\* self.lighthouse.analyze_url, with whatever signal that call returned:
\* with or without an error, a category score, vitals and opportunities.

HandedSignals ==
    { [InitialSignal EXCEPT !.error = e, !.data_source = "lighthouse_api",
                            !.categories = c, !.core_web_vitals = v,
                            !.opportunities = o] :
          e \in {None, "failed"},
          c \in {EmptyDict, [k \in {"performance"} |-> [score |-> 80]]},
          v \in {EmptyDict, extract_core_web_vitals(A_poor)},
          o \in {<< >>, extract_opportunities(A_poor)} }

AnalyzeInit ==
    /\ pc = "extract"
    /\ fb_i = 1
    /\ attempts = << >>
    /\ lh \in HandedSignals
    /\ results = InitialResults
    /\ data_sources = << >>
    /\ runs = [page_load |-> 0, resources |-> 0]
    /\ failed = {}
    /\ calc = NoCalc
    /\ other = NoAudit

AnalyzeNext ==
    \/ ExtractLighthouse
    \/ PageLoad
    \/ Resources
    \/ EnhanceVitals
    \/ Score
    \/ Recommend
    \/ Return

AnalyzeSpec == AnalyzeInit /\ [][AnalyzeNext]_vars

\* ------------------------------------------------- two requests at a time
\*
\* audit_website builds a PerformanceAnalyzer of its own for every request,
\* and the analyzer a session and a LighthouseAPI of its own; analyze keeps
\* everything else in local variables.  The second request's analyzer and
\* locals are held in `other` while the first one's thread runs, and the two
\* change places whenever the scheduler switches threads.

OtherUrl == "https://example.org/"

\* the analyzer and the locals of the running request
ThisAudit ==
    [ pc |-> pc, fb_i |-> fb_i, attempts |-> attempts, lh |-> lh, results |-> results,
      data_sources |-> data_sources, runs |-> runs, failed |-> failed ]

\* the signals handed to the first request: an errored one that carries data,
\* and an error-free one with a score, vitals and opportunities
FirstSignals ==
    { [InitialSignal EXCEPT !.error = "failed", !.data_source = "lighthouse_api",
                            !.categories = [k \in {"performance"} |-> [score |-> 80]],
                            !.core_web_vitals = extract_core_web_vitals(A_poor),
                            !.opportunities = extract_opportunities(A_poor)],
      [InitialSignal EXCEPT !.data_source = "lighthouse_api",
                            !.categories = [k \in {"performance"} |-> [score |-> 80]],
                            !.core_web_vitals = extract_core_web_vitals(A_poor),
                            !.opportunities = extract_opportunities(A_poor)] }

\* the signal handed to the second request: from a fallback API, with a score
\* and no vitals
SecondSignals ==
    { [InitialSignal EXCEPT !.url = OtherUrl, !.data_source = "fallback_api",
                            !.fallback_used = TRUE,
                            !.categories = [k \in {"performance"} |-> [score |-> 35]]] }

TwoAuditsInit ==
    /\ pc = "extract"
    /\ fb_i = 1
    /\ attempts = << >>
    /\ lh \in FirstSignals
    /\ results = InitialResults
    /\ data_sources = << >>
    /\ runs = [page_load |-> 0, resources |-> 0]
    /\ failed = {}
    /\ calc = NoCalc
    /\ other \in { [ pc |-> "extract", fb_i |-> 1, attempts |-> << >>, lh |-> s,
                     results |-> InitialResults, data_sources |-> << >>,
                     runs |-> [page_load |-> 0, resources |-> 0], failed |-> {} ] :
                       s \in SecondSignals }

\* mutant: one data_sources list for both analyzers
Switch_SharedSources ==
    /\ other.pc # "none"
    /\ other' = ThisAudit
    /\ pc' = other.pc
    /\ fb_i' = other.fb_i
    /\ attempts' = other.attempts
    /\ lh' = other.lh
    /\ results' = other.results
    /\ data_sources' = data_sources
    /\ runs' = other.runs
    /\ failed' = other.failed
    /\ UNCHANGED calc

\* the scheduler passes control to the other request's thread
Switch ==
    /\ other.pc # "none"
    /\ other' = ThisAudit
    /\ pc' = other.pc
    /\ fb_i' = other.fb_i
    /\ attempts' = other.attempts
    /\ lh' = other.lh
    /\ results' = other.results
    /\ data_sources' = other.data_sources
    /\ runs' = other.runs
    /\ failed' = other.failed
    /\ UNCHANGED calc

TwoAuditsNext ==
    \/ ExtractLighthouse
    \/ PageLoad
    \/ Resources
    \/ EnhanceVitals
    \/ Score
    \/ Recommend
    \/ Return
    \/ Switch

TwoAuditsSpec == TwoAuditsInit /\ [][TwoAuditsNext]_vars

\* ================================================================ claims

SourceOrder == << "lighthouse_api", "fallback_api_1", "fallback_api_2", "local_analysis" >>

ExternalSources == { "lighthouse_api", "fallback_api_1", "fallback_api_2" }

TryStates == { "try_primary", "try_fallback", "try_local" }

\* analyze_url has returned
ChainFinished == pc \notin TryStates

Range(s) == { s[i] : i \in DOMAIN s }

\* C1: the sources are attempted in the order primary, fallback 1, fallback 2,
\* local analysis; a source is attempted only after every earlier one returned
\* an error, and once an error-free result is adopted nothing later is attempted.
C1_ChainOrder ==
    /\ Len(attempts) <= Len(SourceOrder)
    /\ \A i \in DOMAIN attempts : attempts[i].src = SourceOrder[i]
    /\ \A i \in DOMAIN attempts : i < Len(attempts) => attempts[i].error # None
    /\ \A i \in DOMAIN attempts :
          attempts[i].error = None =>
              /\ i = Len(attempts)
              /\ ChainFinished
              /\ lh.data_source = attempts[i].src

\* C1 witness: two sources failed, the third was adopted, the audit completed
C1_Witness ==
    /\ pc = "done"
    /\ Len(attempts) = 3
    /\ attempts[3].error = None
    /\ lh.data_source = "fallback_api_2"

\* C2: the score of the result is within [0, 100] (0..1000 tenths).
C2_ScoreInRange ==
    /\ results.score.tenths >= 0
    /\ results.score.tenths <= 1000

\* C2 witness: every source, the page load and the resource inventory failed
C2_Witness ==
    /\ pc = "done"
    /\ failed = { "sources", "page_load", "resources" }
    /\ Len(attempts) = 4

\* a failed step left an error string or an issues entry in the result
Recorded(step) ==
    CASE step = "sources" -> results.details.lighthouse.error # None
      [] step = "page_load" ->
            "analysis_error" \in Range(results.details.page_load.issues)
      [] step = "resources" ->
            \/ "error" \in DOMAIN results.details.resource_analysis
            \/ \E k \in { "images", "scripts", "stylesheets" } :
                  "analysis_error"
                      \in Range(results.details.resource_analysis.resources[k].issues)
            \/ \E i \in DOMAIN results.issues : results.issues[i].type = "error"

\* C3: analyze returns a result in which every failed step is recorded in a
\* structured field (an error string or an issues entry).
C3_FailuresRecorded ==
    pc = "done" => \A step \in failed : Recorded(step)

\* each source was requested at most once
OncePerSource ==
    \A i, j \in DOMAIN attempts : attempts[i].src = attempts[j].src => i = j

\* C4: from any state of the source chain the audit reaches DONE, with at most
\* one attempt per source and the local measurement run after the chain.
C4_Terminates ==
    /\ (pc \in TryStates) ~> (pc = "done")
    /\ [](OncePerSource /\ Len(attempts) <= 4)
    /\ [](pc = "done" => runs.page_load = 1 /\ runs.resources = 1)

\* C4 witness: every attempt failed and the audit still completed
C4_Witness ==
    /\ pc = "done"
    /\ Len(attempts) = 4
    /\ \A i \in DOMAIN attempts : attempts[i].error # None

\* C5: once a request to an external endpoint has failed, no further request
\* goes to the same endpoint in the same analyze_url call.
C5_NoEndpointTwice ==
    \A i, j \in DOMAIN attempts :
        ( /\ i < j
          /\ attempts[i].src \in ExternalSources
          /\ attempts[j].src \in ExternalSources
          /\ attempts[i].error # None )
        => attempts[j].url # attempts[i].url

\* the coordinator is about to attempt source number n of SourceOrder
AboutToTry(n) ==
    CASE n = 1 -> pc = "try_primary"
      [] n = 2 -> pc = "try_fallback" /\ fb_i = 1
      [] n = 3 -> pc = "try_fallback" /\ fb_i = 2
      [] n = 4 -> pc = "try_local"
      [] OTHER -> FALSE

\* C6: an HTTP 429 from an external source gives a result with error set, the
\* source is not requested again, and the next attempt is on the next source.
C6_RateLimitMovesOn ==
    \A i \in DOMAIN attempts :
        (attempts[i].status = 429 /\ attempts[i].src \in ExternalSources) =>
            /\ attempts[i].error # None
            /\ attempts[i].src = SourceOrder[i]
            /\ IF i < Len(attempts)
               THEN /\ attempts[i + 1].src = SourceOrder[i + 1]
                    /\ attempts[i + 1].url # attempts[i].url
               ELSE AboutToTry(i + 1)

\* C6 witness: the primary was rate limited and fallback 1 was attempted next
C6_Witness ==
    /\ Len(attempts) >= 2
    /\ attempts[1].status = 429
    /\ attempts[2].src = "fallback_api_1"

\* the response of an attempt was a failure of one of the four kinds
FailureKind(a) ==
    \/ a.kind = "exception"
    \/ a.status # 200
    \/ a.shape \in { "no_lighthouseResult", "bad_types" }

\* C7: for every source, a network exception, a non-success status, a rate
\* limit and a malformed payload each give a result whose error is set.
C7_FailuresBecomeErrors ==
    \A i \in DOMAIN attempts : FailureKind(attempts[i]) => attempts[i].error # None

AllExternalFailed ==
    /\ Len(attempts) >= 3
    /\ \A i \in 1..3 : attempts[i].error # None

\* the entries of data_sources that stand for locally measured data
LocalMarkers ==
    { "lighthouse_local_analysis", "local_page_load", "local_resource_analysis",
      "enhanced_core_web_vitals" }

\* C8: when the primary and both fallbacks failed, the returned signal has
\* fallback_used = true and data_source = local_analysis, and the audit's
\* data_sources names the local analysis first and ends with a local marker.
C8_LocalAdopted ==
    (ChainFinished /\ AllExternalFailed) =>
        /\ lh.fallback_used
        /\ lh.data_source = "local_analysis"
        /\ pc = "done" =>
              /\ results.details.lighthouse.data_source = "local_analysis"
              /\ results.details.lighthouse.fallback_used
              /\ Head(results.details.data_sources) = "lighthouse_local_analysis"
              /\ Last(results.details.data_sources)
                    \in { "local_resource_analysis", "enhanced_core_web_vitals" }
              /\ Range(results.details.data_sources) \subseteq LocalMarkers

\* C8 witness: all three APIs failed, local analysis succeeded, audit complete
C8_Witness ==
    /\ pc = "done"
    /\ AllExternalFailed
    /\ lh.error = None

ExternalLabels ==
    { "lighthouse_lighthouse_api", "lighthouse_fallback_api_1", "lighthouse_fallback_api_2" }

\* C9: in the signal analyze_url returns, fallback_used is (index of the
\* adopted source > 0); it is false exactly when the primary was adopted, and
\* then the primary's label is the first and only external entry of
\* data_sources; data_source is never "unknown".
C9_FallbackFlag ==
    ChainFinished =>
        /\ lh.data_source = attempts[Len(attempts)].src
        /\ lh.fallback_used = (Len(attempts) > 1)
        /\ (~lh.fallback_used) = (lh.data_source = "lighthouse_api")
        /\ lh.data_source # "unknown"
        /\ (pc = "done" /\ ~lh.fallback_used) =>
              /\ results.details.data_sources[1] = "lighthouse_lighthouse_api"
              /\ \A i \in DOMAIN results.details.data_sources :
                    results.details.data_sources[i] \in ExternalLabels => i = 1

\* C9 witness: a completed audit that adopted a fallback API
C9_Witness ==
    /\ pc = "done"
    /\ lh.data_source = "fallback_api_1"
    /\ lh.fallback_used

\* C10: the local measurement runs exactly once, after the source chain, and
\* fills metrics.load_time, page_size and requests_count whatever the chain
\* returned; "local_page_load" is in data_sources of every completed audit.
C10_LocalMeasurementOnce ==
    /\ ~ChainFinished => runs = [page_load |-> 0, resources |-> 0]
    /\ runs.page_load <= 1 /\ runs.resources <= 1
    /\ pc = "done" =>
          /\ runs = [page_load |-> 1, resources |-> 1]
          /\ results.metrics.load_time = results.details.page_load.total_time
          /\ results.metrics.page_size = results.details.resource_analysis.total_size
          /\ results.metrics.requests_count
                = results.details.resource_analysis.total_requests
          /\ "local_page_load" \in Range(results.details.data_sources)

\* C10 witness: the primary API was adopted and the local measurement still ran
C10_Witness ==
    /\ pc = "done"
    /\ lh.data_source = "lighthouse_api"
    /\ runs.page_load = 1
    /\ results.metrics.requests_count > 50

\* the data_sources entry that stands for a source of the chain
LabelOf ==
    [ lighthouse_api |-> "lighthouse_lighthouse_api",
      fallback_api_1 |-> "lighthouse_fallback_api_1",
      fallback_api_2 |-> "lighthouse_fallback_api_2",
      local_analysis |-> "lighthouse_local_analysis" ]

SourceLabels == { LabelOf[s] : s \in DOMAIN LabelOf }

\* C11 as stated: the data_sources list of a completed audit lists every
\* source that was attempted, in attempt order (primary and fallback 1 failed,
\* fallback 2 adopted: all three appear in that order).
C11_AllAttemptsListed ==
    pc = "done" =>
        /\ Len(results.details.data_sources) >= Len(attempts)
        /\ \A i \in DOMAIN attempts :
              results.details.data_sources[i] = LabelOf[attempts[i].src]

\* C11 amended: the data_sources list of a completed audit names only the
\* adopted source (the last one attempted), as its first entry; no source that
\* failed before it is listed and no later entry is a source label.
C11_OnlyAdoptedListed ==
    pc = "done" =>
        /\ results.details.data_sources # << >>
        /\ results.details.data_sources[1] = LabelOf[Last(attempts).src]
        /\ \A i \in DOMAIN results.details.data_sources :
              results.details.data_sources[i] \in SourceLabels => i = 1
        /\ \A i \in DOMAIN attempts :
              i < Len(attempts) =>
                  LabelOf[attempts[i].src] \notin Range(results.details.data_sources)

\* C11 witness: the primary and fallback 1 failed, fallback 2 was adopted and
\* is the only source the completed audit lists
C11_Witness ==
    /\ pc = "done"
    /\ Len(attempts) = 3
    /\ attempts[1].error # None /\ attempts[2].error # None
    /\ lh.data_source = "fallback_api_2"
    /\ results.details.data_sources[1] = "lighthouse_fallback_api_2"

\* analyze replaces the signal's vitals by the local estimate
VitalsSubstituted == lh.error # None \/ DOMAIN lh.core_web_vitals = {}

EstimateNote == "Enhanced with local data"

\* the vitals of the result are the ones estimated from the local measurement
LocallyEstimated(vitals) ==
    /\ DOMAIN vitals = {"lcp", "fid", "cls", "fcp", "enhanced"}
    /\ \A m \in {"lcp", "fid", "cls", "fcp"} : vitals[m].note = EstimateNote

\* C12 as stated: the data_sources list of a completed audit consists of the
\* adopted source's id, "local_page_load" and, if and only if the signal has an
\* error or no core web vitals, "enhanced_core_web_vitals"; nothing else.
C12_ThreeEntries ==
    pc = "done" =>
        results.details.data_sources =
            << LabelOf[lh.data_source], "local_page_load" >>
            \o (IF VitalsSubstituted THEN << "enhanced_core_web_vitals" >> ELSE << >>)

\* C12 amended: the list consists of the adopted source's id,
\* "local_page_load", "local_resource_analysis" and, if and only if the signal
\* has an error or no core web vitals, "enhanced_core_web_vitals"; in that case
\* the result's vitals are the locally estimated ones, otherwise the signal's.
C12_DataSources ==
    pc = "done" =>
        /\ results.details.data_sources =
              << LabelOf[lh.data_source], "local_page_load", "local_resource_analysis" >>
              \o (IF VitalsSubstituted THEN << "enhanced_core_web_vitals" >> ELSE << >>)
        /\ VitalsSubstituted => LocallyEstimated(results.details.core_web_vitals)
        /\ ~VitalsSubstituted => results.details.core_web_vitals = lh.core_web_vitals

\* C12 witness: an error-free signal without vitals, so the completed audit
\* lists four entries and carries the local estimate
C12_Witness ==
    /\ pc = "done"
    /\ lh.error = None
    /\ DOMAIN lh.core_web_vitals = {}
    /\ Len(results.details.data_sources) = 4
    /\ LocallyEstimated(results.details.core_web_vitals)

\* analyze has computed the score
Scored == pc \in {"recommend", "record", "done"}

\* the adopted signal is error-free and exposes a "performance" category
Blended == lh.error = None /\ "performance" \in DOMAIN lh.categories

ExternalScore == lh.categories["performance"].score

LocalScore == calculate_local_performance_score(results.details, results.metrics)

\* C13: the composite score is round(external*0.7 + local*0.3, 1), in tenths
\* 7*external + 3*local, exactly when the adopted signal is error-free and
\* exposes a "performance" category (an external score of 0 included), and is
\* the local score otherwise; external 80 and local 60 give 74.0.
C13_CompositeScore ==
    Scored =>
        /\ Blended => results.score.tenths = 7 * ExternalScore + 3 * LocalScore
        /\ ~Blended => results.score.tenths = 10 * LocalScore
        /\ (Blended /\ ExternalScore = 80 /\ LocalScore = 60) => results.score.tenths = 740

\* C13 witness: a completed audit that blended external 80 with local 60
C13_Witness ==
    /\ pc = "done"
    /\ Blended
    /\ ExternalScore = 80
    /\ LocalScore = 60
    /\ results.score.tenths = 740

\* C14 as stated: the score of every returned result is an integer, with the
\* blend and without it (read by value: a whole number).
C14_ScoreIsInteger ==
    pc = "done" => results.score.tenths % 10 = 0

\* C14 amended: the score is an int exactly when only the local score is used;
\* with the 70/30 blend it is a float with one decimal, which is a whole number
\* only when 7*external + 3*local is a multiple of 10; it lies in 0..100.
C14_ScoreType ==
    Scored =>
        /\ results.score.tenths \in 0..1000
        /\ Blended =>
              /\ results.score.type = "float"
              /\ (results.score.tenths % 10 = 0) = ((7 * ExternalScore + 3 * LocalScore) % 10 = 0)
        /\ ~Blended =>
              /\ results.score.type = "int"
              /\ results.score.tenths % 10 = 0

\* C14 witness: a completed audit whose blended score is not a whole number
C14_Witness ==
    /\ pc = "done"
    /\ Blended
    /\ results.score.type = "float"
    /\ results.score.tenths % 10 = 5

\* the method named fn has been called on its own
CalledFn(fn) == calc.fn = fn /\ calc.calls >= 1

\* tiers as <<cut-off, penalty>>, highest first: the penalty of the first
\* cut-off the value exceeds, 0 if it exceeds none
RECURSIVE TierPenalty(_, _)
TierPenalty(tiers, x) ==
    IF tiers = << >> THEN 0
    ELSE IF x > Head(tiers)[1] THEN Head(tiers)[2]
    ELSE TierPenalty(Tail(tiers), x)

LoadTiers == << <<5000 * MS, 40>>, <<3000 * MS, 25>>, <<1000 * MS, 15>> >>

SizeTiers == << <<5000000, 30>>, <<2000000, 20>>, <<1000000, 10>> >>

RequestTiers == << <<100, 20>>, <<50, 10>> >>

PoorPenalty == [lcp |-> 15, fid |-> 15, cls |-> 10]

RECURSIVE SumOver(_, _)
SumOver(f, S) ==
    IF S = {} THEN 0
    ELSE LET x == CHOOSE y \in S : TRUE IN f[x] + SumOver(f, S \ {x})

\* the metrics of vitals that are rated poor
PoorIn(vitals) == { m \in DOMAIN PoorPenalty : m \in DOMAIN vitals /\ vitals[m].rating = "poor" }

\* C15: local_score is 100 minus one load-time penalty, one page-size penalty,
\* one request-count penalty and 15/15/10 for LCP/FID/CLS rated poor, clamped
\* to [0,100]; a value on a cut-off (1000, 3000, 5000 ms; 1, 2, 5 MB; 50, 100
\* requests) incurs the lower tier.
C15_LocalScore ==
    CalledFn("local_score") =>
        LET m == calc.in.metrics
            raw == 100 - TierPenalty(LoadTiers, m.load_time)
                       - TierPenalty(SizeTiers, m.page_size)
                       - TierPenalty(RequestTiers, m.requests_count)
                       - SumOver(PoorPenalty, PoorIn(calc.in.details.core_web_vitals))
        IN  /\ calc.out = (IF raw < 0 THEN 0 ELSE IF raw > 100 THEN 100 ELSE raw)
            /\ (/\ m.load_time = 1000 * MS /\ m.page_size = 1000000
                /\ m.requests_count = 50 /\ PoorIn(calc.in.details.core_web_vitals) = {})
               => calc.out = 100
            /\ (/\ m.load_time = 5000 * MS /\ m.page_size = 5000000
                /\ m.requests_count = 100 /\ PoorIn(calc.in.details.core_web_vitals) = {})
               => calc.out = 45

\* C15 witness: the score of a page on the highest cut-offs, nothing rated poor
C15_Witness ==
    /\ CalledFn("local_score")
    /\ calc.in.metrics = [load_time |-> 5000 * MS, page_size |-> 5000000, requests_count |-> 100]
    /\ PoorIn(calc.in.details.core_web_vitals) = {}
    /\ calc.out = 45

\* the default cut-offs as <<good, needs-improvement>>, times in 1/10000 ms,
\* CLS in 1/10^7
DefaultCutoffs ==
    [ lcp |-> <<2500 * MS, 4000 * MS>>,
      fid |-> <<100 * MS, 300 * MS>>,
      cls |-> <<1000000, 2500000>>,
      fcp |-> <<1800 * MS, 3000 * MS>> ]

\* the rating of v by cut-offs that are inclusive on the better side
RateBy(good, needs_improvement, v) ==
    IF v <= good THEN "good"
    ELSE IF v <= needs_improvement THEN "needs-improvement" ELSE "poor"

DefaultRating(m, v) == RateBy(DefaultCutoffs[m][1], DefaultCutoffs[m][2], v)

\* C16: the rating boundaries are inclusive on the better side for all four
\* metrics in both implementations (LCP <=2500 good, <=4000 needs-improvement,
\* else poor; FID 100/300; CLS 0.10/0.25; FCP 1800/3000), and the two
\* implementations return the same rating for every value.
C16_RatingBoundaries ==
    CalledFn("rating") =>
        LET m == calc.in.metric
            v == calc.in.value
        IN  /\ calc.out.analyzer = DefaultRating(m, v)
            /\ calc.out.lighthouse = calc.out.analyzer
            /\ (m = "lcp" /\ v = 2500 * MS) => calc.out.analyzer = "good"
            /\ (m = "lcp" /\ v = 2501 * MS) => calc.out.analyzer = "needs-improvement"
            /\ (m = "lcp" /\ v = 4000 * MS) => calc.out.analyzer = "needs-improvement"
            /\ (m = "lcp" /\ v = 4001 * MS) => calc.out.analyzer = "poor"

\* C16 witness: a CLS of exactly 0.10 rated good by both implementations
C16_Witness ==
    /\ CalledFn("rating")
    /\ calc.in.metric = "cls"
    /\ calc.in.value = 1000000
    /\ calc.out = [analyzer |-> "good", lighthouse |-> "good"]

\* C17: for every vital reading of a returned result the rating is the
\* threshold rating of the reading's own stored value.
C17_RatingOfStoredValue ==
    pc = "done" =>
        \A m \in DOMAIN results.details.core_web_vitals \ {"enhanced"} :
            results.details.core_web_vitals[m].rating
                = DefaultRating(m, results.details.core_web_vitals[m].value)

\* the rating of v by the threshold table the configuration supplies
ConfiguredRating(env, m, v) ==
    LET table == get_core_web_vitals_thresholds(AuditConfig(env))
    IN  RateBy(table[m].good, table[m].needs_improvement, v)

\* C18: the rating of a vital is computed against the configured threshold
\* table: with an LCP good cut-off of 2000 an LCP of 2300 is rated by that
\* table, and with no override the default cut-offs apply.
C18_ConfiguredThresholds ==
    CalledFn("rating") =>
        calc.out.analyzer = ConfiguredRating(calc.in.env, calc.in.metric, calc.in.value)

\* C20: with load_time 2000 ms, content_size 1,000,000 bytes and no
\* resource_count the estimator yields LCP 2500 rated good and FCP 1400 rated
\* good; a repeated call with the same arguments returns the same output.
C20_EstimateExample ==
    CalledFn("estimate_local") =>
        /\ (calc.in.load_time = 2000 * MS /\ calc.in.content_size = 1000000) =>
              /\ calc.out["lcp"].value = 2500 * MS
              /\ calc.out["lcp"].rating = "good"
              /\ calc.out["fcp"].value = 1400 * MS
              /\ calc.out["fcp"].rating = "good"
        /\ calc.calls >= 2 => calc.out = calc.prev

\* C20 witness: the estimator called twice with 2000 ms and 1,000,000 bytes
C20_Witness ==
    /\ CalledFn("estimate_local")
    /\ calc.calls = 2
    /\ calc.in = [load_time |-> 2000 * MS, content_size |-> 1000000]
    /\ calc.out["lcp"].value = 2500 * MS
    /\ calc.out = calc.prev

\* the stored values of the base formulas: LCP = load + size/100000*50,
\* FID = min(load*0.10, 200), CLS = min(size/10000000, 0.3), FCP = load*0.70
BaseValues(load, size) ==
    [ lcp |-> Round2(load + size * 5),
      fid |-> Round2(Min(load \div 10, 200 * MS)),
      cls |-> Round3(Min(size, 3000000)),
      fcp |-> Round2((load * 7) \div 10) ]

\* the stored values of the enhanced formulas: LCP = load + size/100000*30 +
\* rc*10, FID = min(load*0.15 + rc*5, 250), CLS = min(size/10000000 +
\* rc*0.001, 0.3), FCP = load*0.60
EnhancedValues(load, size, rc) ==
    [ lcp |-> Round2(load + size * 3 + rc * 10 * MS),
      fid |-> Round2(Min((load * 15) \div 100 + rc * 5 * MS, 250 * MS)),
      cls |-> Round3(Min(size + rc * 10000, 3000000)),
      fcp |-> Round2((load * 6) \div 10) ]

ValuesOf(vitals) == [m \in {"lcp", "fid", "cls", "fcp"} |-> vitals[m].value]

\* C19: the estimator tier is selected by whether resource_count is known: the
\* vitals analyze estimates follow the enhanced formulas exactly when the
\* resource inventory was obtained, and the base formulas when it failed.
C19_TierByInventory ==
    (pc = "done" /\ VitalsSubstituted) =>
        ValuesOf(results.details.core_web_vitals) =
            IF "resources" \notin failed
            THEN EnhancedValues(results.metrics.load_time, results.metrics.page_size,
                                results.metrics.requests_count)
            ELSE BaseValues(results.metrics.load_time, results.metrics.page_size)

\* the fetch of local-as-source analysis raised
LocalSourceFetchFailed ==
    /\ ChainFinished
    /\ Last(attempts).src = "local_analysis"
    /\ Last(attempts).kind = "exception"

\* C21: a failed local fetch is not fatal: local-as-source returns a signal
\* with an error string and empty data; the completed audit has load_time 0
\* after a failed page load and page_size 0, requests_count 0 after a failed
\* inventory; when all of them failed the score is the local score of zeroed
\* inputs, 100.
C21_LocalFailureNotFatal ==
    /\ LocalSourceFetchFailed =>
          /\ lh.error # None
          /\ DOMAIN lh.categories = {}
          /\ DOMAIN lh.core_web_vitals = {}
          /\ lh.opportunities = << >>
          /\ lh.diagnostics = << >>
          /\ lh.audits = {}
    /\ pc = "done" =>
          /\ "page_load" \in failed => results.metrics.load_time = 0
          /\ "resources" \in failed =>
                /\ results.metrics.page_size = 0
                /\ results.metrics.requests_count = 0
          /\ (LocalSourceFetchFailed /\ {"page_load", "resources"} \subseteq failed) =>
                results.score = [tenths |-> 1000, type |-> "int"]

\* C21 witness: every fetch of the page failed and the audit completed with
\* zeroed metrics
C21_Witness ==
    /\ pc = "done"
    /\ LocalSourceFetchFailed
    /\ {"page_load", "resources"} \subseteq failed
    /\ results.metrics.load_time = 0
    /\ results.metrics.page_size = 0
    /\ results.metrics.requests_count = 0
    /\ results.score.tenths = 1000

\* C22: the signal analyze_url returns has error set if and only if every
\* source of the chain, local analysis included, returned an error; an adopted
\* source leaves error null whatever failed before it, and a signal with an
\* error always has data_source local_analysis.
C22_ErrorIffAllFailed ==
    ChainFinished =>
        /\ (lh.error # None) =
              (Len(attempts) = Len(SourceOrder)
               /\ \A i \in DOMAIN attempts : attempts[i].error # None)
        /\ (\E i \in DOMAIN attempts : attempts[i].error = None) => lh.error = None
        /\ lh.error # None => lh.data_source = "local_analysis"

\* C22 witness: a signal with an error, returned after all four sources failed
C22_Witness ==
    /\ ChainFinished
    /\ lh.error # None
    /\ lh.data_source = "local_analysis"
    /\ Len(attempts) = Len(SourceOrder)

\* the entries of list s whose type is t
OfType(s, t) == { i \in DOMAIN s : s[i].type = t }

\* C23: when the signal handed to analyze has error set, its category score is
\* not blended into the score, its vitals are not adopted (the local estimate
\* stands), no lighthouse_score metric is recorded, and no recommendation or
\* warning is derived from its opportunities or vitals.
C23_ErroredSignalIgnored ==
    (pc = "done" /\ lh.error # None) =>
        /\ results.score = [tenths |-> 10 * LocalScore, type |-> "int"]
        /\ "lighthouse_score" \notin DOMAIN results.metrics
        /\ LocallyEstimated(results.details.core_web_vitals)
        /\ ValuesOf(results.details.core_web_vitals) =
              EnhancedValues(results.metrics.load_time, results.metrics.page_size,
                             results.metrics.requests_count)
        /\ OfType(results.recommendations, "lighthouse-opportunity") = {}
        /\ OfType(results.warnings, "core-web-vitals") = {}

\* C23 witness: a completed audit of a signal that has an error and also a
\* category score, vitals and opportunities
C23_Witness ==
    /\ pc = "done"
    /\ lh.error # None
    /\ "performance" \in DOMAIN lh.categories
    /\ DOMAIN lh.core_web_vitals # {}
    /\ lh.opportunities # << >>
    /\ results.score.type = "int"

\* C24: in every completed audit the result's core_web_vitals has a reading
\* for each of LCP, FID, CLS and FCP, also when the adopted signal is
\* error-free and reports only some of them.
C24_AllFourVitals ==
    pc = "done" => {"lcp", "fid", "cls", "fcp"} \subseteq DOMAIN results.details.core_web_vitals

IsOpportunityEntry(e) == e.type = "lighthouse-opportunity"

BelowNineTenths(o) == o.score < 90

\* C25: for an error-free signal there is exactly one recommendation for each
\* opportunity with score < 0.9, in the opportunities' order, and none for the
\* others; its severity is high if score < 0.5 and medium otherwise (0.5 is
\* medium); its remediation is the table entry of the opportunity's id, or the
\* generic message when the id is not in the table.
C25_OpportunityRecommendations ==
    (pc = "done" /\ lh.error = None) =>
        LET recs == SelectSeq(results.recommendations, IsOpportunityEntry)
            opps == SelectSeq(lh.opportunities, BelowNineTenths)
        IN  /\ Len(recs) = Len(opps)
            /\ \A i \in DOMAIN opps :
                  /\ recs[i].ref = opps[i].id
                  /\ recs[i].severity = (IF opps[i].score < 50 THEN "high" ELSE "medium")
                  /\ opps[i].score = 50 => recs[i].severity = "medium"
                  /\ recs[i].recommendation =
                        (IF opps[i].id \in FixIds THEN opps[i].id ELSE "generic")

\* C25 witness: a completed audit whose signal has an opportunity of score
\* exactly 0.5 and one of score >= 0.9, the first giving a medium recommendation
C25_Witness ==
    /\ pc = "done"
    /\ lh.error = None
    /\ \E i \in DOMAIN lh.opportunities : lh.opportunities[i].score >= 90
    /\ \E i \in DOMAIN lh.opportunities : lh.opportunities[i].score = 50
    /\ \E i \in DOMAIN results.recommendations :
          /\ results.recommendations[i].type = "lighthouse-opportunity"
          /\ results.recommendations[i].severity = "medium"

\* the cap of a FID reading, told by its note: 300 ms for the value derived
\* from total blocking time, 250 ms for the enhanced and 200 ms for the base
\* estimate
FidCap(reading) ==
    CASE reading.note = "Estimated from Total Blocking Time" -> 300 * MS
      [] reading.note = "Enhanced with local data" -> 250 * MS
      [] reading.note = "Estimated from local analysis" -> 200 * MS

\* a FID reading of vitals, if there is one, is within its cap and not poor
FidNotPoor(vitals) ==
    "fid" \in DOMAIN vitals =>
        /\ vitals["fid"].value <= FidCap(vitals["fid"])
        /\ vitals["fid"].value <= 300 * MS
        /\ vitals["fid"].rating # "poor"

\* C27: in every reachable result the FID reading is never rated poor (base
\* estimate capped at 200, enhanced at 250, the value derived from total
\* blocking time at 300, the poor cut-off), so the FID penalty of 15 is never
\* part of local_score.
C27_FidNeverPoor ==
    /\ FidNotPoor(lh.core_web_vitals)
    /\ FidNotPoor(results.details.core_web_vitals)
    /\ Scored =>
          LocalScore = 100 - TierPenalty(LoadTiers, results.metrics.load_time)
                           - TierPenalty(SizeTiers, results.metrics.page_size)
                           - TierPenalty(RequestTiers, results.metrics.requests_count)
                           - SumOver(PoorPenalty,
                                     PoorIn(results.details.core_web_vitals) \ {"fid"})
             \/ LocalScore = 0

\* C27 witness: a completed audit whose FID comes from a total blocking time
\* of 2000 ms and sits on the cap of 300, rated needs-improvement
C27_Witness ==
    /\ pc = "done"
    /\ "fid" \in DOMAIN results.details.core_web_vitals
    /\ results.details.core_web_vitals["fid"].value = 300 * MS
    /\ results.details.core_web_vitals["fid"].rating = "needs-improvement"

\* the pages whose local analysis gives the vitals of the adopted signal
AdoptedLocalPages ==
    { r \in LocalResponses :
          /\ r.kind = "response"
          /\ r.status = Last(attempts).status
          /\ perform_local_analysis(r).core_web_vitals = lh.core_web_vitals
          /\ perform_local_analysis(r).opportunities = lh.opportunities }

\* C28: when all external APIs fail and local analysis succeeds, the adopted
\* signal is error-free with a "performance" category and the score is the
\* 70/30 blend of LighthouseAPI's local score (load-time and size penalties of
\* its own fetch) with PerformanceAnalyzer's local score; the score is the
\* plain local score only when local analysis failed as well or the adopted
\* signal has no performance category.
C28_LocalSourceBlend ==
    Scored =>
        /\ (AllExternalFailed /\ lh.error = None) =>
              /\ "performance" \in DOMAIN lh.categories
              /\ AdoptedLocalPages # {}
              /\ \A r \in AdoptedLocalPages :
                    ExternalScore = 100 - TierPenalty(LoadTiers, r.load_time)
                                        - TierPenalty(SizeTiers, r.content_size)
              /\ results.score = [tenths |-> 7 * ExternalScore + 3 * LocalScore,
                                  type |-> "float"]
        /\ results.score.type = "int" =>
              /\ results.score.tenths = 10 * LocalScore
              /\ lh.error # None \/ "performance" \notin DOMAIN lh.categories
        /\ (AllExternalFailed /\ lh.error # None) => results.score.type = "int"

\* C28 witness: all APIs failed, local analysis of the 6000 ms / 6 MB page
\* scored 30, and the completed audit blended it
C28_Witness ==
    /\ pc = "done"
    /\ AllExternalFailed
    /\ lh.error = None
    /\ ExternalScore = 30
    /\ results.score.type = "float"
    /\ results.score.tenths = 7 * 30 + 3 * LocalScore

\* the fields a source's result can bring into the signal
ResultFields ==
    { "lighthouse_version", "categories", "core_web_vitals", "opportunities",
      "diagnostics", "audits", "error" }

\* the results the source of attempt a can have returned for a response of
\* the kind, status and shape that attempt saw
ResultsOf(a) ==
    IF a.src = "local_analysis"
    THEN { perform_local_analysis(r) :
               r \in { x \in LocalResponses : x.kind = a.kind /\ x.status = a.status } }
    ELSE { (IF a.src = "lighthouse_api" THEN try_lighthouse_api(r) ELSE try_fallback_api(r)) :
               r \in { x \in ApiResponses :
                         x.kind = a.kind /\ x.status = a.status /\ x.body.shape = a.shape } }

\* signal s has the fields of result r and the initial value elsewhere
TakenFrom(s, r) ==
    \A k \in ResultFields : s[k] = (IF k \in DOMAIN r THEN r[k] ELSE InitialSignal[k])

\* C29: failed attempts leave no trace in the signal: while the chain is
\* running the signal is the initial one; the signal returned takes categories,
\* core_web_vitals, opportunities, diagnostics, audits, lighthouse_version and
\* error from the result of the last (adopted) source alone; url, strategy and
\* timestamp keep their initial values throughout.
C29_NoTraceOfFailedAttempts ==
    /\ lh.url = InitialSignal.url
    /\ lh.strategy = InitialSignal.strategy
    /\ lh.timestamp = InitialSignal.timestamp
    /\ pc \in TryStates => lh = InitialSignal
    /\ (ChainFinished /\ attempts # << >>) =>
          \E r \in ResultsOf(Last(attempts)) : TakenFrom(lh, r)

\* C29 witness: two sources failed, the third was adopted with its vitals
C29_Witness ==
    /\ ChainFinished
    /\ Len(attempts) = 3
    /\ attempts[1].error # None /\ attempts[2].error # None
    /\ lh.error = None
    /\ lh.lighthouse_version = "10.0"
    /\ DOMAIN lh.core_web_vitals # {}

\* C30: local_score does not increase when load_time, page_size or
\* requests_count grows with the ratings fixed, nor when a vital's rating
\* changes to poor; so, for a fixed external score, the composite score does
\* not increase when a local metric gets worse.
C30_Monotone ==
    CalledFn("score_pair") =>
        /\ calc.out.worse_local <= calc.out.local
        /\ calc.out.score.type = "float" /\ calc.out.worse_score.type = "float"
        /\ calc.out.worse_score.tenths <= calc.out.score.tenths

\* C30 witness: a load time that crossed 5000 ms with everything else the
\* same lowered the local score and the composite score
C30_Witness ==
    /\ CalledFn("score_pair")
    /\ calc.in.first.metrics.load_time = 5000 * MS
    /\ calc.out.second.metrics.load_time > 5000 * MS
    /\ calc.out.worse_local < calc.out.local
    /\ calc.out.worse_score.tenths < calc.out.score.tenths

\* the result of analyze run alone on signal, load_results and
\* resource_results: the steps of analyze one after another
AloneResult(signal, load_results, resource_results) ==
    LET estimated == signal.error # None \/ DOMAIN signal.core_web_vitals = {}
        r1 == IF signal.error = None
              THEN [InitialResults EXCEPT
                      !.details.lighthouse = signal,
                      !.details.core_web_vitals = signal.core_web_vitals,
                      !.metrics = Update(@, [lighthouse_score |->
                            IF "performance" \in DOMAIN signal.categories
                            THEN signal.categories["performance"].score ELSE 0])]
              ELSE [InitialResults EXCEPT !.details.lighthouse = signal]
        r2 == [r1 EXCEPT !.details.page_load = load_results,
                         !.metrics.load_time = load_results.total_time]
        r3 == [r2 EXCEPT !.details.resource_analysis = resource_results,
                         !.metrics.page_size = resource_results.total_size,
                         !.metrics.requests_count = resource_results.total_requests]
        r4 == IF estimated
              THEN [r3 EXCEPT !.details.core_web_vitals =
                                  enhance_core_web_vitals_with_local_data(r3.details)]
              ELSE r3
        r5 == [r4 EXCEPT !.score = calculate_performance_score(r4.details, r4.metrics, signal)]
        r6 == generate_recommendations(r5, signal)
    IN  [r6 EXCEPT !.details.data_sources =
            << SourceLabel(signal.data_source), "local_page_load", "local_resource_analysis" >>
            \o (IF estimated THEN << "enhanced_core_web_vitals" >> ELSE << >>)]

\* the requests being served
Audits == {ThisAudit} \cup (IF other.pc = "none" THEN {} ELSE {other})

\* C26: audits share no mutable state: with the steps of two audits of
\* different URLs interleaved in any order, the result of each completed audit
\* (score, metrics, core_web_vitals, data_sources, and the signal's
\* fallback_used) is the result analyze gives alone on that audit's own source
\* outcomes, whatever the other audit did before or meanwhile.
C26_AuditsIndependent ==
    \A a \in Audits :
        a.pc = "done" =>
            LET alone == AloneResult(a.lh, a.results.details.page_load,
                                     a.results.details.resource_analysis)
            IN  /\ a.results.score = alone.score
                /\ a.results.metrics = alone.metrics
                /\ a.results.details.core_web_vitals = alone.details.core_web_vitals
                /\ a.results.details.data_sources = alone.details.data_sources
                /\ a.results.details.lighthouse.fallback_used = a.lh.fallback_used
                /\ a.results = alone

\* C26 witness: both audits completed, of different URLs, one from the primary
\* API and one from a fallback, with different scores and lists of sources
C26_Witness ==
    /\ other.pc = "done"
    /\ pc = "done"
    /\ lh.url # other.lh.url
    /\ ~lh.fallback_used /\ other.lh.fallback_used
    /\ results.score # other.results.score
    /\ Len(results.details.data_sources) = 3
    /\ Len(other.results.details.data_sources) = 4

====
